---- MODULE Spec2Model ----
(***************************************************************************)
(* Verification model of boristopalov/petri: the message broker            *)
(* (pkg/messaging/broker.go), the bounded memory log (pkg/memory) and the  *)
(* donor-game environment (pkg/environment).                               *)
(***************************************************************************)
EXTENDS Integers, Sequences, FiniteSets, TLC

(***************************************************************************)
(* Bounds of the model.                                                    *)
(***************************************************************************)
\* capacity of every channel handed to Subscribe (make(chan Message, n))
ChanCap == 2
\* number of Publish calls explored
MaxPublish == 2

\* largest capacity a memory log is constructed with (NewMemory(capacity))
MaxCapacity == 2
\* number of Store calls explored on one memory log
MaxStores == 4

\* NewDonorGameEnvironment(roundsPerGen, donationMult, initialBalance)
RoundsPerGen == 2
DonationMult == 2
InitialBalance == 2
\* longest roster explored
MaxRoster == 4
\* number of donor-game Step calls explored
MaxSteps == 1
\* longest roster explored where agents are also removed and ranked
RosterCap == 2
\* calls of the fixed-step experiment (Step, Run)
MaxCalls == 2
\* largest numAgents and numGenerations a generational run is configured with
MaxAgents == 2
MaxGenerations == 2
\* the number of steps the chat command configures (ExperimentConfig.Steps)
Steps == 10
\* capacity of an agent's memory log, NewMemory(100)
AgentMemoryCapacity == 100
\* NewLLMAgent: memory.NewMemory(100)
LLMAgentMemoryCapacity == 100

\* agent identifiers
Ids == {"a1", "a2", "a3"}
\* the ids used as From of a published message
Senders == {"a1"}
\* message payloads
Contents == {"hello"}
\* texts stored in a memory log
Data == {"x", "y"}
\* donor-game agents (an agent is known by its id), in the order the
\* experiment creates them
AgentOrder == <<"g1", "g2", "g3", "g4">>
Agents == {AgentOrder[i] : i \in DOMAIN AgentOrder}
\* the id initializeGeneration gives agent i of a generation: "%d_%d"
AgentID(generation, i) == ToString(generation) \o "_" \o ToString(i)
\* the agents of a generational run
ExpAgents == {AgentID(g, i) : g \in 1..MaxGenerations, i \in 0..(MaxAgents - 1)}
AllAgents == Agents \cup ExpAgents
\* the amounts a donor's answer names: a part of the initial balance, and more
\* than the initial balance
Asks == {1, InitialBalance + 1}

(***************************************************************************)
(* Message broker: types.go Message, broker.go SimpleBroker.               *)
(***************************************************************************)
\* a channel handle; <<id, k>> is the k-th channel made for the agent id (an
\* agent created again under the same id makes a fresh channel)
Chans == Ids \X {1, 2}
\* the channel of the first agent created under each id
FirstChans == Ids \X {1}
\* absent map entry of subscribers
NoChan == <<"none", 0>>

\* recipient lists: empty (broadcast), one id, two ids (also the same id twice)
ToLists == {<<>>} \cup {<<x>> : x \in Ids} \cup {<<x, y>> : x, y \in Ids}
Message == [From : Senders, To : ToLists, Content : Contents]
NoMsg == [From |-> "none", To |-> <<>>, Content |-> "none"]

\* error values returned by the broker
Nil == [kind |-> "nil", id |-> "none"]
ErrFull(id) == [kind |-> "full", id |-> id]
ErrAlreadySubscribed(id) == [kind |-> "already", id |-> id]
ErrNotSubscribed(id) == [kind |-> "notsubscribed", id |-> id]

VARIABLES
    subscribers,   \* SimpleBroker.subscribers: id -> channel handle or NoChan
    chans,         \* buffer of every channel: handle -> queued messages
    ret,           \* the last broker call: operation, arguments, result
    granted,       \* observer: the handle each id holds by the calls' results
    npub,          \* number of Publish calls made
    capacity,      \* Memory.capacity
    memoryStream,  \* Memory.memoryStream
    stored,        \* observer: every text passed to Store, in call order
    messages,      \* the slice the last GetAllMessages returned
    mret,          \* the last memory call
    agents,              \* DonorGameEnvironment.agents, the roster
    AgentResources,      \* state.AgentResources, the ledger (a map)
    Round,               \* state.Round
    TotalRounds,         \* state.TotalRounds
    SuccessfulDonations, \* state.SuccessfulDonations
    FailedDonations,     \* state.FailedDonations
    Step,                \* state.BaseState.Step of the donor environment
    agentMemory,         \* memoryStream of every agent's memory log
    pc,                  \* where the Step holding e.mu is: idle = lock free
    tasks,               \* decision goroutines that have not emitted yet
    donationChan,        \* the result channel of every Step call
    donations,           \* Step's local slice of collected donations
    collected,           \* Step's collection loop counter i
    applied,             \* number of donations of this Step applied
    ctxDone,             \* whether the ctx of the running Step is cancelled
    nsteps,              \* number of Step calls made
    shuffled,            \* Step's local copy of the roster, shuffled
    entry,               \* observer: ledger and counters when Step was called
    top,                 \* the slice the last GetTopAgents returned
    dret,                \* the last environment call and its result
    cmd,                 \* the command of cmd/petri that built the environment
    baseAgents,          \* BaseEnvironment.agents, the roster
    baseState,           \* BaseEnvironment.state (Status, Step)
    basePc,              \* where the Step holding e.mu is: idle = lock free
    runs,                \* the agent runs of the running Step, by roster position
    bret,                \* the last call of the generic environment
    metrics,             \* experimentMetrics.states, the recorded snapshots
    xpc,                 \* the call of BaseExperiment that is running
    xcalls,              \* number of calls of Step and Run made
    xenv,                \* observer: environment steps the last Run has made
    xsteps,              \* observer: Steps of the experiment that returned nil
    xfails,              \* observer: Steps of the experiment that failed
    xret,                \* the last call of BaseExperiment and its result
    strategy,            \* DonorGameAgent.strategy of every agent
    calls,               \* observer: completion calls of the last GenerateStrategy
    sret,                \* the last GenerateStrategy call and its result
    conf,                \* DonorGameExperiment: numAgents, numGenerations
    gpc,                 \* where DonorGameExperiment.Run is
    gen,                 \* the generation being initialized or run
    created,             \* initializeGeneration's loop counter i
    round,               \* runGeneration's loop counter round
    survivorAdvice,      \* the advice built from the last survivors
    advised,             \* observer: the prompt each agent's strategy came from
    played,              \* observer: environment Steps of Run that returned nil
    gret,                \* the result of Run
    handler,             \* the message handler goroutine of every LLM agent
    handlerCtx,          \* whether the ctx given to the handlers is cancelled
    llmMemory            \* memoryStream of every LLM agent's memory log

brokerVars == <<subscribers, chans, ret, granted, npub>>
memoryVars == <<capacity, memoryStream, stored, messages, mret>>
ledgerVars == <<AgentResources, Round, TotalRounds, SuccessfulDonations,
                FailedDonations, Step>>
stepVars == <<pc, tasks, donationChan, donations, collected, applied, ctxDone,
              nsteps, shuffled, entry>>
donorVars == <<agents, ledgerVars, agentMemory, stepVars, top, dret>>
baseVars == <<baseAgents, baseState, basePc, runs, bret>>
fixedVars == <<metrics, xpc, xcalls, xenv, xsteps, xfails, xret>>
strategyVars == <<strategy, calls, sret>>
genVars == <<conf, gpc, gen, created, round, survivorAdvice, advised, played,
            gret>>
expVars == <<fixedVars, strategyVars, genVars>>
handlerVars == <<handler, handlerCtx, llmMemory>>
extVars == <<cmd, handlerVars, baseVars, expVars>>
vars == <<brokerVars, memoryVars, donorVars, extVars>>

Ret(op, id, ch, msg, rcpts, done, err) ==
    [op |-> op, id |-> id, ch |-> ch, msg |-> msg, rcpts |-> rcpts,
     done |-> done, err |-> err]

\* NewBroker
InitBroker ==
    /\ subscribers = [id \in Ids |-> NoChan]
    /\ chans = [h \in Chans |-> <<>>]
    /\ ret = Ret("new", "none", NoChan, NoMsg, <<>>, 0, Nil)
    /\ granted = [id \in Ids |-> NoChan]
    /\ npub = 0

\* all orders in which a Go map range can visit the set S
Perms(S) ==
    {s \in [1..Cardinality(S) -> S] : \A i, j \in 1..Cardinality(S) : s[i] = s[j] => i = j}

\* Publish, lines 28-35: the ids a broadcast resolves to
BroadcastRecipientsWithSelf(subs, from) == {id \in Ids : subs[id] # NoChan}
BroadcastRecipients(subs, from) == {id \in Ids : subs[id] # NoChan /\ id # from}

\* Publish, lines 28-35: the recipient list, order being the map's range order
Recipients(subs, msg, order) == IF Len(msg.To) = 0 THEN order ELSE msg.To

\* Publish, lines 45-51: the non-blocking send on a buffered channel
TrySendOverwrite(buf, msg) ==
    IF Len(buf) < ChanCap THEN [ok |-> TRUE, buf |-> Append(buf, msg)]
    ELSE [ok |-> TRUE, buf |-> Append(Tail(buf), msg)]
TrySend(buf, msg) ==
    IF Len(buf) < ChanCap THEN [ok |-> TRUE, buf |-> Append(buf, msg)]
    ELSE [ok |-> FALSE, buf |-> buf]

\* Publish, lines 38-54: the delivery loop; done counts the recipients passed
RECURSIVE SendAllStrict(_, _, _, _, _)
SendAllStrict(subs, chs, msg, rcpts, done) ==
    IF done = Len(rcpts) THEN [chans |-> chs, err |-> Nil, done |-> done]
    ELSE LET recipientID == rcpts[done + 1]
             ch == subs[recipientID]
         IN  IF ch = NoChan
             THEN [chans |-> chs, err |-> ErrNotSubscribed(recipientID), done |-> done]
             ELSE LET s == TrySend(chs[ch], msg)
                  IN  IF s.ok
                      THEN SendAllStrict(subs, [chs EXCEPT ![ch] = s.buf], msg,
                                         rcpts, done + 1)
                      ELSE [chans |-> chs, err |-> ErrFull(recipientID),
                            done |-> done]
RECURSIVE SendAll(_, _, _, _, _)
SendAll(subs, chs, msg, rcpts, done) ==
    IF done = Len(rcpts) THEN [chans |-> chs, err |-> Nil, done |-> done]
    ELSE LET recipientID == rcpts[done + 1]
             ch == subs[recipientID]
         IN  IF ch = NoChan THEN SendAll(subs, chs, msg, rcpts, done + 1)
             ELSE LET s == TrySend(chs[ch], msg)
                  IN  IF s.ok
                      THEN SendAll(subs, [chs EXCEPT ![ch] = s.buf], msg, rcpts,
                                   done + 1)
                      ELSE [chans |-> chs, err |-> ErrFull(recipientID),
                            done |-> done]

PublishRollback(subs, chs, msg, rcpts) ==
    LET r == SendAll(subs, chs, msg, rcpts, 0)
    IN  IF r.err = Nil THEN r ELSE [r EXCEPT !.chans = chs]
PublishLoop(subs, chs, msg, rcpts) == SendAll(subs, chs, msg, rcpts, 0)

\* SimpleBroker.Publish
Publish(msg, order) ==
    /\ npub < MaxPublish
    /\ LET rcpts == Recipients(subscribers, msg, order)
           r == PublishLoop(subscribers, chans, msg, rcpts)
       IN  /\ chans' = r.chans
           /\ ret' = Ret("publish", msg.From, NoChan, msg, rcpts, r.done, r.err)
    /\ npub' = npub + 1
    /\ UNCHANGED <<subscribers, granted, memoryVars, donorVars>>

PublishAny ==
    \E msg \in Message :
        \E order \in (IF Len(msg.To) = 0
                      THEN Perms(BroadcastRecipients(subscribers, msg.From))
                      ELSE {<<>>}) :
            Publish(msg, order)

\* Subscribe, lines 62-67
SubscribeRebind(subs, agentID, ch) ==
    IF subs[agentID] # NoChan
    THEN [subs |-> [subs EXCEPT ![agentID] = ch], err |-> ErrAlreadySubscribed(agentID)]
    ELSE [subs |-> [subs EXCEPT ![agentID] = ch], err |-> Nil]
SubscribeMap(subs, agentID, ch) ==
    IF subs[agentID] # NoChan
    THEN [subs |-> subs, err |-> ErrAlreadySubscribed(agentID)]
    ELSE [subs |-> [subs EXCEPT ![agentID] = ch], err |-> Nil]

\* Unsubscribe, lines 75-80
UnsubscribeKeep(subs, agentID) ==
    IF subs[agentID] = NoChan
    THEN [subs |-> subs, err |-> ErrNotSubscribed(agentID)]
    ELSE [subs |-> subs, err |-> Nil]
UnsubscribeMap(subs, agentID) ==
    IF subs[agentID] = NoChan
    THEN [subs |-> subs, err |-> ErrNotSubscribed(agentID)]
    ELSE [subs |-> [subs EXCEPT ![agentID] = NoChan], err |-> Nil]

\* SimpleBroker.Subscribe; the caller passes a channel made for that agent
\* (NewLLMAgent makes the agent's channel and subscribes it under the agent's id)
Subscribe(agentID, ch) ==
    /\ ch[1] = agentID
    /\ LET r == SubscribeMap(subscribers, agentID, ch)
       IN  /\ subscribers' = r.subs
           /\ ret' = Ret("subscribe", agentID, ch, NoMsg, <<>>, 0, r.err)
           /\ granted' = IF r.err = Nil THEN [granted EXCEPT ![agentID] = ch]
                         ELSE granted
    /\ UNCHANGED <<chans, npub, memoryVars, donorVars>>

\* SimpleBroker.Unsubscribe
Unsubscribe(agentID) ==
    /\ LET r == UnsubscribeMap(subscribers, agentID)
       IN  /\ subscribers' = r.subs
           /\ ret' = Ret("unsubscribe", agentID, NoChan, NoMsg, <<>>, 0, r.err)
           /\ granted' = IF r.err = Nil THEN [granted EXCEPT ![agentID] = NoChan]
                         ELSE granted
    /\ UNCHANGED <<chans, npub, memoryVars, donorVars>>

\* SimpleBroker.Reset
BrokerReset ==
    /\ subscribers' = [id \in Ids |-> NoChan]
    /\ granted' = [id \in Ids |-> NoChan]
    /\ ret' = Ret("reset", "none", NoChan, NoMsg, <<>>, 0, Nil)
    /\ UNCHANGED <<chans, npub, memoryVars, donorVars>>

\* publishing between agents that each made one channel
NextBroker ==
    \/ PublishAny /\ UNCHANGED extVars
    \/ \E id \in Ids, ch \in FirstChans : Subscribe(id, ch) /\ UNCHANGED extVars
    \/ \E id \in Ids : Unsubscribe(id) /\ UNCHANGED extVars
    \/ BrokerReset /\ UNCHANGED extVars

\* subscription management, with agents created again under a used id
NextSubs ==
    \/ \E id \in Ids, ch \in Chans : Subscribe(id, ch) /\ UNCHANGED extVars
    \/ \E id \in Ids : Unsubscribe(id) /\ UNCHANGED extVars
    \/ BrokerReset /\ UNCHANGED extVars

(***************************************************************************)
(* Bounded memory log: pkg/memory Memory.                                  *)
(***************************************************************************)
\* NewMemory(cap)
NewMemory(cap) ==
    /\ capacity = cap
    /\ memoryStream = <<>>
    /\ stored = <<>>
    /\ messages = <<>>
    /\ mret = "new"

\* a memory log of some capacity; make() panics on a negative one
InitMemory == \E cap \in 0..MaxCapacity : NewMemory(cap)

\* Memory.Store, lines 33-40: append, then drop the oldest when over capacity
MemStoreNoEvict(stream, cap, data) == Append(stream, data)
MemStoreDropNewest(stream, cap, data) ==
    IF Len(stream) + 1 > cap THEN stream ELSE Append(stream, data)
MemStore(stream, cap, data) ==
    LET appended == Append(stream, data)
    IN  IF Len(appended) > cap THEN Tail(appended) ELSE appended

\* Memory.GetAllMessages, lines 24-26: a copy of the stream
MemCopy(stream) == [i \in 1..Len(stream) |-> stream[i]]

\* Memory.Store
Store(data) ==
    /\ Len(stored) < MaxStores
    /\ memoryStream' = MemStore(memoryStream, capacity, data)
    /\ stored' = Append(stored, data)
    /\ mret' = "store"
    /\ UNCHANGED <<capacity, messages, brokerVars, donorVars>>

\* Memory.GetAllMessages
GetAllMessages ==
    /\ messages' = MemCopy(memoryStream)
    /\ mret' = "snapshot"
    /\ UNCHANGED <<capacity, memoryStream, stored, brokerVars, donorVars>>

NextMemory ==
    \/ \E data \in Data : Store(data) /\ UNCHANGED extVars
    \/ GetAllMessages /\ UNCHANGED extVars

(***************************************************************************)
(* Donor game: DonorGameAgent (pkg/agent) and DonorGameEnvironment         *)
(* (pkg/environment).                                                      *)
(***************************************************************************)
Range(f) == {f[i] : i \in DOMAIN f}

\* a Go map[string]float64: reading an absent key yields 0, writing adds it
Bal(res, id) == IF id \in DOMAIN res THEN res[id] ELSE 0
SetBal(res, id, v) == [x \in DOMAIN res \cup {id} |-> IF x = id THEN v ELSE res[x]]
DeleteBal(res, id) == [x \in DOMAIN res \ {id} |-> res[x]]
EmptyLedger == [x \in {} |-> 0]

DRet(op, id, err) == [op |-> op, id |-> id, err |-> err]

\* the observer's value while no Step is running
NoEntry == [res |-> EmptyLedger, successful |-> 0, failed |-> 0, round |-> 0,
            total |-> 0]

\* NewDonorGameEnvironment
InitDonor ==
    /\ agents = <<>>
    /\ AgentResources = EmptyLedger
    /\ Round = 0
    /\ TotalRounds = 0
    /\ SuccessfulDonations = 0
    /\ FailedDonations = 0
    /\ Step = 0
    /\ agentMemory = [a \in AllAgents |-> <<>>]
    /\ pc = "idle"
    /\ tasks = {}
    /\ donationChan = <<>>
    /\ donations = <<>>
    /\ collected = 0
    /\ applied = 0
    /\ ctxDone = FALSE
    /\ nsteps = 0
    /\ shuffled = <<>>
    /\ entry = NoEntry
    /\ top = <<>>
    /\ dret = DRet("new", "none", "nil")

\* what a completion call produces: an error, or a text with or without a
\* line ANSWER: <number>
Responses ==
    {[kind |-> "error", value |-> 0], [kind |-> "noanswer", value |-> 0]}
        \cup {[kind |-> "answer", value |-> n] : n \in Asks}

\* parseDonationResponse: the regexp matches an unsigned number after ANSWER:
parseDonationResponse(response) ==
    IF response.kind = "answer" THEN [donation |-> response.value, err |-> "nil"]
    ELSE [donation |-> 0, err |-> "could not find answer"]

\* MakeDonationDecision, lines 95-108
MakeDonationDecision(response, donorResources) ==
    IF response.kind = "error" THEN [amount |-> 0, err |-> "failed to generate response"]
    ELSE LET parsed == parseDonationResponse(response)
         IN  IF parsed.err # "nil" THEN [amount |-> 0, err |-> parsed.err]
             ELSE IF parsed.donation > donorResources
                  THEN [amount |-> donorResources, err |-> "nil"]
                  ELSE [amount |-> parsed.donation, err |-> "nil"]

\* getRecentHistory: the last three entries at most of the first roster agent
\* with that id (the sentinel text when there is none is the empty history)
getRecentHistory(agentID) ==
    LET all == agentMemory[agentID]
        start == IF Len(all) > 3 THEN 3 ELSE Len(all)
    IN  SubSeq(all, Len(all) - start + 1, Len(all))

\* the agents a caller adds next: one that was added before (again), or the
\* next one the experiment creates (initializeGeneration numbers them)
Addable ==
    {a \in Agents : \/ a \in Range(agents)
                    \/ \E i \in DOMAIN AgentOrder :
                          /\ AgentOrder[i] = a
                          /\ \A j \in 1..(i - 1) : AgentOrder[j] \in Range(agents)}

\* DonorGameEnvironment.AddAgent
AddAgent(a) ==
    /\ pc = "idle"
    /\ Len(agents) < MaxRoster
    /\ agents' = Append(agents, a)
    /\ AgentResources' = SetBal(AgentResources, a, InitialBalance)
    /\ dret' = DRet("addAgent", a, "nil")
    /\ UNCHANGED <<Step, Round, TotalRounds, SuccessfulDonations, FailedDonations,
                   agentMemory, stepVars, top, brokerVars, memoryVars>>

\* RemoveAgent, lines 559-566: the first roster position holding the id
RemoveAt(roster, i) == SubSeq(roster, 1, i - 1) \o SubSeq(roster, i + 1, Len(roster))
FirstIndex(roster, a) ==
    IF \E i \in 1..Len(roster) : roster[i] = a
    THEN CHOOSE i \in 1..Len(roster) :
             roster[i] = a /\ \A j \in 1..(i - 1) : roster[j] # a
    ELSE 0

\* DonorGameEnvironment.RemoveAgent
RemoveAgent(a) ==
    /\ pc = "idle"
    /\ IF FirstIndex(agents, a) # 0
       THEN /\ agents' = RemoveAt(agents, FirstIndex(agents, a))
            /\ AgentResources' = DeleteBal(AgentResources, a)
            /\ dret' = DRet("removeAgent", a, "nil")
       ELSE /\ dret' = DRet("removeAgent", a, "not found")
            /\ UNCHANGED <<agents, AgentResources>>
    /\ UNCHANGED <<Step, Round, TotalRounds, SuccessfulDonations, FailedDonations,
                   agentMemory, stepVars, top, brokerVars, memoryVars>>

\* DonorGameEnvironment.Reset
ResetKeepCounters ==
    /\ pc = "idle"
    /\ agents' = <<>>
    /\ AgentResources' = EmptyLedger
    /\ Round' = 0
    /\ TotalRounds' = 0
    /\ Step' = 0
    /\ dret' = DRet("reset", "none", "nil")
    /\ UNCHANGED <<SuccessfulDonations, FailedDonations, agentMemory, stepVars,
                   top, brokerVars, memoryVars>>
Reset ==
    /\ pc = "idle"
    /\ agents' = <<>>
    /\ AgentResources' = EmptyLedger
    /\ Round' = 0
    /\ TotalRounds' = 0
    /\ SuccessfulDonations' = 0
    /\ FailedDonations' = 0
    /\ Step' = 0
    /\ dret' = DRet("reset", "none", "nil")
    /\ UNCHANGED <<agentMemory, stepVars, top, brokerVars, memoryVars>>

\* Step, line 611: the roster cannot be paired
OddRosterBelowTwo(n) == n < 2
OddRoster(n) == n % 2 # 0

\* Step, line 621: the result channel has one slot per pair
DonationChanOneSlot(n) == 1
DonationChanSize(n) == n \div 2

\* Step, lines 606-656: take the lock, copy and shuffle the roster, refuse an
\* odd one, make the result channel and launch one decision task per pair.
\* p is the permutation rand.Shuffle produces. Each task keeps the channel of
\* its Step (the Step's number and the channel's size).
StepCall(p) ==
    /\ pc = "idle"
    /\ IF OddRoster(Len(agents))
       THEN /\ dret' = DRet("step", "none", "need even number of agents")
            /\ UNCHANGED <<stepVars>>
       ELSE /\ shuffled' = [i \in 1..Len(agents) |-> agents[p[i]]]
            /\ tasks' = tasks \cup
                   {[step |-> nsteps + 1, cap |-> DonationChanSize(Len(agents)),
                     pair |-> k,
                     donor |-> shuffled'[2 * k - 1],
                     recipient |-> shuffled'[2 * k],
                     history |-> getRecentHistory(shuffled'[2 * k])] :
                        k \in 1..(Len(agents) \div 2)}
            /\ donationChan' = Append(donationChan, <<>>)
            /\ donations' = <<>>
            /\ collected' = 0
            /\ applied' = 0
            /\ ctxDone' = FALSE
            /\ nsteps' = nsteps + 1
            /\ entry' = [res |-> AgentResources,
                         successful |-> SuccessfulDonations,
                         failed |-> FailedDonations, round |-> Round,
                         total |-> TotalRounds]
            /\ pc' = "collect"
            /\ UNCHANGED dret
    /\ UNCHANGED <<agents, ledgerVars, agentMemory, top, brokerVars, memoryVars>>

\* a Step as the callers of the environment make it, at most MaxSteps of them
\* launching decisions
StepBegin(p) ==
    /\ OddRoster(Len(agents)) \/ nsteps < MaxSteps
    /\ StepCall(p)

\* Step, lines 632-655: a decision task reads the state (lines 633-640 are the
\* arguments of MakeDonationDecision), asks the donor and sends its record on
\* the channel of its Step
DecisionArgs(t) ==
    [generation |-> Step, round |-> Round, recipientID |-> t.recipient,
     recipientResources |-> Bal(AgentResources, t.recipient),
     recipientHistory |-> t.history,
     donorResources |-> Bal(AgentResources, t.donor)]
DecisionRecord(t, response) ==
    LET r == MakeDonationDecision(response, DecisionArgs(t).donorResources)
    IN  IF r.err # "nil"
        THEN [donorID |-> t.donor, recipientID |-> "", amount |-> 0, err |-> r.err]
        ELSE [donorID |-> t.donor, recipientID |-> t.recipient,
              amount |-> r.amount, err |-> "nil"]

\* Step, lines 632-655: the task runs; its send waits while the channel is full
DecideToLatest(t, response) ==
    /\ t \in tasks
    /\ Len(donationChan[nsteps]) < t.cap
    /\ tasks' = tasks \ {t}
    /\ donationChan' = [donationChan EXCEPT ![nsteps] = Append(@, DecisionRecord(t, response))]
    /\ UNCHANGED <<agents, ledgerVars, agentMemory, pc, donations, collected,
                   applied, ctxDone, nsteps, shuffled, entry, top, dret,
                   brokerVars, memoryVars>>
Decide(t, response) ==
    /\ t \in tasks
    /\ Len(donationChan[t.step]) < t.cap
    /\ tasks' = tasks \ {t}
    /\ donationChan' = [donationChan EXCEPT ![t.step] = Append(@, DecisionRecord(t, response))]
    /\ UNCHANGED <<agents, ledgerVars, agentMemory, pc, donations, collected,
                   applied, ctxDone, nsteps, shuffled, entry, top, dret,
                   brokerVars, memoryVars>>

\* the ctx of the running Step is cancelled (deadline, interrupt); a ctx that
\* is cancelled before Step is called behaves as one cancelled right after the
\* tasks are launched
Cancel ==
    /\ pc # "idle"
    /\ ~ctxDone
    /\ ctxDone' = TRUE
    /\ UNCHANGED <<agents, ledgerVars, agentMemory, pc, tasks, donationChan,
                   donations, collected, applied, nsteps, shuffled, entry, top,
                   dret, brokerVars, memoryVars>>

Pairs == Len(agents) \div 2

\* Step, lines 661-674 without the continue of line 669: an error record goes
\* on to be appended and counted as successful
CollectRecordNoContinue ==
    /\ pc = "collect"
    /\ collected < Pairs
    /\ Len(donationChan[nsteps]) > 0
    /\ LET d == Head(donationChan[nsteps])
       IN  /\ FailedDonations' = FailedDonations + (IF d.err # "nil" THEN 1 ELSE 0)
           /\ donations' = Append(donations, d)
           /\ SuccessfulDonations' = SuccessfulDonations + 1
    /\ donationChan' = [donationChan EXCEPT ![nsteps] = Tail(@)]
    /\ collected' = collected + 1
    /\ UNCHANGED <<Step, agents, AgentResources, Round, TotalRounds, agentMemory, pc,
                   tasks, applied, ctxDone, nsteps, shuffled, entry, top, dret,
                   brokerVars, memoryVars>>

\* Step, lines 661-674, case d := <-donationChan
CollectRecord ==
    /\ pc = "collect"
    /\ collected < Pairs
    /\ Len(donationChan[nsteps]) > 0
    /\ LET d == Head(donationChan[nsteps])
       IN  IF d.err # "nil"
           THEN /\ FailedDonations' = FailedDonations + 1
                /\ UNCHANGED <<donations, SuccessfulDonations>>
           ELSE /\ donations' = Append(donations, d)
                /\ SuccessfulDonations' = SuccessfulDonations + 1
                /\ UNCHANGED FailedDonations
    /\ donationChan' = [donationChan EXCEPT ![nsteps] = Tail(@)]
    /\ collected' = collected + 1
    /\ UNCHANGED <<Step, agents, AgentResources, Round, TotalRounds, agentMemory, pc,
                   tasks, applied, ctxDone, nsteps, shuffled, entry, top, dret,
                   brokerVars, memoryVars>>

\* Step returning on ctx.Done only once every decision task it launched has
\* sent its record
CollectCancelledAfterTasks ==
    /\ pc = "collect"
    /\ collected < Pairs
    /\ ctxDone
    /\ \A t \in tasks : t.step # nsteps
    /\ pc' = "idle"
    /\ shuffled' = <<>>
    /\ entry' = NoEntry
    /\ dret' = DRet("step", "none", "context canceled")
    /\ UNCHANGED <<agents, ledgerVars, agentMemory, tasks, donationChan,
                   donations, collected, applied, ctxDone, nsteps, top,
                   brokerVars, memoryVars>>

\* Step, lines 661-664, case <-ctx.Done(): return ctx.Err(), releasing the lock
CollectCancelled ==
    /\ pc = "collect"
    /\ collected < Pairs
    /\ ctxDone
    /\ pc' = "idle"
    /\ shuffled' = <<>>
    /\ entry' = NoEntry
    /\ dret' = DRet("step", "none", "context canceled")
    /\ UNCHANGED <<agents, ledgerVars, agentMemory, tasks, donationChan,
                   donations, collected, applied, ctxDone, nsteps, top,
                   brokerVars, memoryVars>>

\* Step, lines 683-685: the round counters advance once all records are in
AdvanceRound ==
    /\ pc = "collect"
    /\ collected = Pairs
    /\ Round' = Round + 1
    /\ TotalRounds' = TotalRounds + 1
    /\ pc' = "apply"
    /\ UNCHANGED <<Step, agents, AgentResources, SuccessfulDonations, FailedDonations,
                   agentMemory, tasks, donationChan, donations, collected,
                   applied, ctxDone, nsteps, shuffled, entry, top, dret,
                   brokerVars, memoryVars>>

\* Step, lines 689-692: debit the donor, credit the recipient
ApplyToLedger(res, d) ==
    LET debited == SetBal(res, d.donorID, Bal(res, d.donorID) - d.amount)
    IN  SetBal(debited, d.recipientID,
               Bal(debited, d.recipientID) + d.amount * DonationMult)

\* Step, lines 695-711: the memory update loop over the roster, which ends at
\* the first agent with the recipient's id
RECURSIVE UpdateMemories(_, _, _, _)
UpdateMemories(roster, mem, d, i) ==
    IF i > Len(roster) THEN mem
    ELSE LET a == roster[i]
             m1 == IF a = d.donorID
                   THEN [mem EXCEPT ![a] = MemStore(@, AgentMemoryCapacity,
                            [kind |-> "donated", peer |-> d.recipientID])]
                   ELSE mem
         IN  IF a = d.recipientID
             THEN [m1 EXCEPT ![a] = MemStore(@, AgentMemoryCapacity,
                      [kind |-> "received", peer |-> d.donorID])]
             ELSE UpdateMemories(roster, m1, d, i + 1)

\* Step, lines 688-712: one iteration of the loop over donations
ApplyDonation ==
    /\ pc = "apply"
    /\ applied < Len(donations)
    /\ LET d == donations[applied + 1]
       IN  /\ AgentResources' = ApplyToLedger(AgentResources, d)
           /\ agentMemory' = UpdateMemories(agents, agentMemory, d, 1)
    /\ applied' = applied + 1
    /\ UNCHANGED <<Step, agents, Round, TotalRounds, SuccessfulDonations,
                   FailedDonations, pc, tasks, donationChan, donations,
                   collected, ctxDone, nsteps, shuffled, entry, top, dret,
                   brokerVars, memoryVars>>

\* Step, lines 715-719: reset the round counter at the generation's end,
\* return nil and release the lock
StepEndNoWrap ==
    /\ pc = "apply"
    /\ applied = Len(donations)
    /\ pc' = "idle"
    /\ shuffled' = <<>>
    /\ entry' = NoEntry
    /\ dret' = DRet("step", "none", "nil")
    /\ UNCHANGED <<Step, agents, AgentResources, Round, TotalRounds,
                   SuccessfulDonations, FailedDonations, agentMemory, tasks,
                   donationChan, donations, collected, applied, ctxDone, nsteps,
                   top, brokerVars, memoryVars>>
StepEnd ==
    /\ pc = "apply"
    /\ applied = Len(donations)
    /\ Round' = IF Round >= RoundsPerGen THEN 0 ELSE Round
    /\ pc' = "idle"
    /\ shuffled' = <<>>
    /\ entry' = NoEntry
    /\ dret' = DRet("step", "none", "nil")
    /\ UNCHANGED <<Step, agents, AgentResources, TotalRounds, SuccessfulDonations,
                   FailedDonations, agentMemory, tasks, donationChan, donations,
                   collected, applied, ctxDone, nsteps, top, brokerVars,
                   memoryVars>>

\* GetTopAgents, lines 770-772: sort.Slice on fewer than 13 elements is an
\* insertion sort under less(i, j) = scores[i].resources > scores[j].resources:
\* an element moves left past every element with a smaller balance
InsertScore(sorted, id, res) ==
    LET k == Cardinality({i \in 1..Len(sorted) : Bal(res, sorted[i]) >= Bal(res, id)})
    IN  SubSeq(sorted, 1, k) \o <<id>> \o SubSeq(sorted, k + 1, Len(sorted))

RECURSIVE SortScores(_, _)
SortScores(scores, res) ==
    IF scores = <<>> THEN <<>>
    ELSE InsertScore(SortScores(SubSeq(scores, 1, Len(scores) - 1), res),
                     scores[Len(scores)], res)

\* GetTopAgents, lines 775-778: the first n ids, or all of them
FirstN(sorted, n) == SubSeq(sorted, 1, IF n < Len(sorted) THEN n ELSE Len(sorted))

\* DonorGameEnvironment.GetTopAgents: GetState copies the state under the read
\* lock, the ledger map is ranged over in the order `order`, sorted and cut.
\* The call is made between Steps, as selectSurvivors makes it.
GetTopAgents(n, order) ==
    /\ pc = "idle"
    /\ top' = FirstN(SortScores(order, AgentResources), n)
    /\ dret' = DRet("topAgents", n, "nil")
    /\ UNCHANGED <<agents, ledgerVars, agentMemory, stepVars, brokerVars,
                   memoryVars>>

\* a generation as the experiment plays it: the environment is reset, agents
\* are added and rounds are run
NextDonor ==
    \/ \E a \in Addable : AddAgent(a) /\ UNCHANGED extVars
    \/ Reset /\ UNCHANGED extVars
    \/ \E p \in Perms(1..Len(agents)) : StepBegin(p) /\ UNCHANGED extVars
    \/ \E t \in tasks, response \in Responses : Decide(t, response) /\ UNCHANGED extVars
    \/ Cancel /\ UNCHANGED extVars
    \/ CollectRecord /\ UNCHANGED extVars
    \/ CollectCancelled /\ UNCHANGED extVars
    \/ AdvanceRound /\ UNCHANGED extVars
    \/ ApplyDonation /\ UNCHANGED extVars
    \/ StepEnd /\ UNCHANGED extVars

\* the environment as any caller may drive it: agents are added, removed and
\* ranked, rounds are run
NextRoster ==
    \/ \E a \in Addable : Len(agents) < RosterCap /\ AddAgent(a) /\ UNCHANGED extVars
    \/ \E a \in Agents : RemoveAgent(a) /\ UNCHANGED extVars
    \/ Reset /\ UNCHANGED extVars
    \/ \E p \in Perms(1..Len(agents)) : StepBegin(p) /\ UNCHANGED extVars
    \/ \E t \in tasks, response \in Responses : Decide(t, response) /\ UNCHANGED extVars
    \/ Cancel /\ UNCHANGED extVars
    \/ CollectRecord /\ UNCHANGED extVars
    \/ CollectCancelled /\ UNCHANGED extVars
    \/ AdvanceRound /\ UNCHANGED extVars
    \/ ApplyDonation /\ UNCHANGED extVars
    \/ StepEnd /\ UNCHANGED extVars
    \/ \E n \in 0..RosterCap, order \in Perms(DOMAIN AgentResources) :
           GetTopAgents(n, order) /\ UNCHANGED extVars

(***************************************************************************)
(* Generic environment: BaseEnvironment[A, S] (pkg/environment) with the   *)
(* LLM agents of the chat command.                                         *)
(***************************************************************************)
BRet(op, id, err) == [op |-> op, id |-> id, err |-> err]

\* NewBaseEnvironment(initialState) as runChatExperiment calls it
InitBase ==
    /\ baseAgents = <<>>
    /\ baseState = [Status |-> "idle", Step |-> 0]
    /\ basePc = "idle"
    /\ runs = <<>>
    /\ bret = BRet("new", "none", "nil")

\* BaseEnvironment.AddAgent
BaseAddAgent(a) ==
    /\ basePc = "idle"
    /\ Len(baseAgents) < RosterCap
    /\ baseAgents' = Append(baseAgents, a)
    /\ bret' = BRet("addAgent", a, "nil")
    /\ UNCHANGED <<baseState, basePc, runs, brokerVars, memoryVars, donorVars>>

\* BaseEnvironment.RemoveAgent: the first roster position holding the id
BaseRemoveAgent(a) ==
    /\ basePc = "idle"
    /\ IF FirstIndex(baseAgents, a) # 0
       THEN /\ baseAgents' = RemoveAt(baseAgents, FirstIndex(baseAgents, a))
            /\ bret' = BRet("removeAgent", a, "nil")
       ELSE /\ bret' = BRet("removeAgent", a, "agent not found")
            /\ UNCHANGED baseAgents
    /\ UNCHANGED <<baseState, basePc, runs, brokerVars, memoryVars, donorVars>>

\* BaseEnvironment.Reset
BaseReset ==
    /\ basePc = "idle"
    /\ baseAgents' = <<>>
    /\ bret' = BRet("reset", "none", "nil")
    /\ UNCHANGED <<baseState, basePc, runs, brokerVars, memoryVars, donorVars>>

\* Step, lines 416-429: take the lock and start one goroutine per roster
\* agent; each is about to make its completion call
StartRuns(roster) == [i \in 1..Len(roster) |-> "complete"]

\* every publish a run makes is counted against MaxPublish, so a Step is
\* started while its runs can all publish
BaseStepBegin ==
    /\ basePc = "idle"
    /\ npub + Len(baseAgents) <= MaxPublish
    /\ runs' = StartRuns(baseAgents)
    /\ basePc' = "wait"
    /\ UNCHANGED <<baseAgents, baseState, bret, brokerVars, memoryVars, donorVars>>

\* LLMAgent.Run, lines 205-208: the completion call returns a text or an error
RunComplete(i, ok) ==
    /\ basePc = "wait"
    /\ i \in DOMAIN runs
    /\ runs[i] = "complete"
    /\ runs' = [runs EXCEPT ![i] = IF ok THEN "send" ELSE "failed"]
    /\ UNCHANGED <<baseAgents, baseState, basePc, bret, brokerVars, memoryVars,
                   donorVars>>

\* LLMAgent.Run, lines 211-217, and Send: the response is broadcast through
\* the broker; the run fails when Publish returns an error
RunSend(i, order) ==
    /\ basePc = "wait"
    /\ i \in DOMAIN runs
    /\ runs[i] = "send"
    /\ Publish([From |-> baseAgents[i], To |-> <<>>, Content |-> "hello"], order)
    /\ runs' = [runs EXCEPT ![i] = IF ret'.err = Nil THEN "done" ELSE "failed"]
    /\ UNCHANGED <<baseAgents, baseState, basePc, bret>>

\* wg.Wait, line 432: every goroutine has called wg.Done
AnyFinished(r) == r = <<>> \/ \E i \in DOMAIN r : r[i] \in {"done", "failed"}
AllFinished(r) == \A i \in DOMAIN r : r[i] \in {"done", "failed"}

\* Step, lines 432-433: return nil and release the lock
BaseStepEnd ==
    /\ basePc = "wait"
    /\ AllFinished(runs)
    /\ basePc' = "idle"
    /\ runs' = <<>>
    /\ bret' = BRet("step", "none", "nil")
    /\ UNCHANGED <<baseAgents, baseState, brokerVars, memoryVars, donorVars>>

\* the environment the command built, driven by any caller: the chat command
\* creates agents (each subscribes to the broker), adds them and runs steps;
\* the donor-game command drives the donor environment
NextEnv ==
    \/ \E id \in Ids : cmd = "chat" /\ Subscribe(id, <<id, 1>>) /\ UNCHANGED extVars
    \/ \E a \in Ids : cmd = "chat" /\ BaseAddAgent(a) /\ UNCHANGED <<cmd, handlerVars, expVars>>
    \/ \E a \in Ids : cmd = "chat" /\ BaseRemoveAgent(a) /\ UNCHANGED <<cmd, handlerVars, expVars>>
    \/ cmd = "chat" /\ BaseReset /\ UNCHANGED <<cmd, handlerVars, expVars>>
    \/ cmd = "chat" /\ BaseStepBegin /\ UNCHANGED <<cmd, handlerVars, expVars>>
    \/ \E i \in DOMAIN runs, ok \in BOOLEAN :
           cmd = "chat" /\ RunComplete(i, ok) /\ UNCHANGED <<cmd, handlerVars, expVars>>
    \/ \E i \in DOMAIN runs :
           \E order \in Perms(BroadcastRecipients(subscribers, baseAgents[i])) :
               cmd = "chat" /\ RunSend(i, order) /\ UNCHANGED <<cmd, handlerVars, expVars>>
    \/ cmd = "chat" /\ BaseStepEnd /\ UNCHANGED <<cmd, handlerVars, expVars>>
    \/ \E a \in Addable :
           cmd = "donor-game" /\ Len(agents) < RosterCap /\ AddAgent(a)
               /\ UNCHANGED extVars
    \/ cmd = "donor-game" /\ Reset /\ UNCHANGED extVars
    \/ \E p \in Perms(1..Len(agents)) :
           cmd = "donor-game" /\ StepBegin(p) /\ UNCHANGED extVars
    \/ \E t \in tasks, response \in Responses :
           cmd = "donor-game" /\ Decide(t, response) /\ UNCHANGED extVars
    \/ cmd = "donor-game" /\ Cancel /\ UNCHANGED extVars
    \/ cmd = "donor-game" /\ CollectRecord /\ UNCHANGED extVars
    \/ cmd = "donor-game" /\ CollectCancelled /\ UNCHANGED extVars
    \/ cmd = "donor-game" /\ AdvanceRound /\ UNCHANGED extVars
    \/ cmd = "donor-game" /\ ApplyDonation /\ UNCHANGED extVars
    \/ cmd = "donor-game" /\ StepEnd /\ UNCHANGED extVars

(***************************************************************************)
(* Strategy generation: DonorGameAgent.GenerateStrategy (pkg/agent).       *)
(***************************************************************************)
\* a line of a response: its first 19 characters (head), the character after
\* them when it is a space (sep) and the remainder (rest)
Marker == "My strategy will be"
Lines ==
    {[head |-> Marker, sep |-> " ", rest |-> "to share"],
     [head |-> Marker, sep |-> " ", rest |-> ""],
     [head |-> Marker, sep |-> "", rest |-> ""],
     [head |-> "my strategy will be", sep |-> " ", rest |-> "to share"],
     [head |-> "I would give a little", sep |-> "", rest |-> ""]}
Text(line) == line.head \o line.sep \o line.rest

\* what a completion call produces: an error, or a text of one or two lines
Texts == {<<l>> : l \in Lines} \cup {<<l, m>> : l, m \in Lines}
Completions ==
    {[err |-> "completion failed", text |-> <<>>]}
        \cup {[err |-> "nil", text |-> t] : t \in Texts}

\* strings.ToLower on the head of a line
ToLower(head) == IF head = Marker THEN "my strategy will be" ELSE head

\* strings.HasPrefix(strings.ToLower(line), "my strategy will be")
HasMarkerPrefix(line) == ToLower(line.head) = "my strategy will be"

\* strings.TrimPrefix(line, "My strategy will be ")
TrimPrefix(line) ==
    IF line.head = Marker /\ line.sep = " " THEN line.rest ELSE Text(line)

\* extractStrategy: the trimmed first line that has the marker as its prefix
\* in lower case, or the empty string
RECURSIVE extractStrategy(_)
extractStrategy(response) ==
    IF response = <<>> THEN ""
    ELSE IF HasMarkerPrefix(Head(response)) THEN TrimPrefix(Head(response))
         ELSE extractStrategy(Tail(response))

\* GenerateStrategy, lines 122-150: the completion call, the extraction, and
\* the retry when the extraction gave the empty string
Generated(first, retry) ==
    IF first.err # "nil"
    THEN [calls |-> 1, err |-> "failed to generate strategy", strategy |-> ""]
    ELSE IF extractStrategy(first.text) # ""
         THEN [calls |-> 1, err |-> "nil", strategy |-> extractStrategy(first.text)]
         ELSE IF retry.err # "nil"
              THEN [calls |-> 2, err |-> "failed to generate strategy on retry",
                    strategy |-> ""]
              ELSE IF extractStrategy(retry.text) = ""
                   THEN [calls |-> 2, err |-> "no strategy found", strategy |-> ""]
                   ELSE [calls |-> 2, err |-> "nil",
                         strategy |-> extractStrategy(retry.text)]

SRet(id, first, retry, err) == [id |-> id, first |-> first, retry |-> retry, err |-> err]

\* NewDonorGameAgent(ctx, id, "") for every agent: no strategy yet
InitStrategy ==
    /\ strategy = [a \in AllAgents |-> ""]
    /\ calls = 0
    /\ sret = SRet("none", <<>>, <<>>, "nil")

\* DonorGameAgent.GenerateStrategy: first and retry are what the first and
\* the second completion call return (the second is made only on a retry)
GenerateStrategy(a, first, retry) ==
    /\ LET r == Generated(first, retry)
       IN  /\ strategy' = IF r.err = "nil" THEN [strategy EXCEPT ![a] = r.strategy]
                          ELSE strategy
           /\ calls' = r.calls
           /\ sret' = SRet(a, first, IF r.calls = 2 THEN retry ELSE <<>>, r.err)

\* strategies are generated, again and again, for one agent
NextStrategy ==
    \E first \in Completions, retry \in Completions :
        /\ GenerateStrategy("g1", first, retry)
        /\ UNCHANGED <<brokerVars, memoryVars, donorVars, cmd, handlerVars, baseVars, fixedVars,
                       genVars>>

(***************************************************************************)
(* Fixed-step experiment: BaseExperiment[A, S] (pkg/experiment).           *)
(***************************************************************************)
XRet(op, err) == [op |-> op, err |-> err]

\* NewBaseExperiment: name, environment and empty metrics (the config it is
\* given is not stored)
InitFixed ==
    /\ metrics = <<>>
    /\ xpc = "idle"
    /\ xcalls = 0
    /\ xenv = 0
    /\ xsteps = 0
    /\ xfails = 0
    /\ xret = XRet("new", "nil")

\* the map NewDonorGameEnvironment made for the ledger; the environment keeps
\* it until a Reset makes another
LedgerMap == "AgentResources"

\* environment.GetState: a copy of the state struct. A Go map value is a
\* reference, so the copy of a donor state holds the environment's ledger map
\* itself, not a copy of its entries.
DonorState(r, total, successful, failed) ==
    [Round |-> r, TotalRounds |-> total, SuccessfulDonations |-> successful,
     FailedDonations |-> failed, AgentResources |-> LedgerMap]

\* the entries seen through the map a copy of the donor state holds
Entries(state) ==
    IF state.AgentResources = LedgerMap THEN AgentResources ELSE EmptyLedger
GetState ==
    IF cmd = "chat" THEN baseState
    ELSE DonorState(Round, TotalRounds, SuccessfulDonations, FailedDonations)
GetStateAfter ==
    IF cmd = "chat" THEN baseState'
    ELSE DonorState(Round', TotalRounds', SuccessfulDonations', FailedDonations')

\* Step, lines 83-87: the post-step snapshot is recorded only when the
\* environment step returned nil
RecordPostAlways(states, state, err) == Append(states, state)
RecordPost(states, state, err) == IF err = "nil" THEN Append(states, state) ELSE states

\* BaseExperiment.Step, lines 74-79, and BaseExperiment.Run, lines 91-96, up
\* to the call of environment.Step: Step records the pre-step snapshot, Run
\* records nothing. early is the error of an environment step that returns
\* at once, or "nil" when the environment step is now running.
Enter(op, early) ==
    /\ xpc = "idle"
    /\ xcalls < MaxCalls
    /\ xcalls' = xcalls + 1
    /\ xenv' = IF op = "run" THEN 1 ELSE xenv
    /\ metrics' = IF op = "step" THEN Append(metrics, GetState) ELSE metrics
    /\ IF early = "nil"
       THEN /\ xpc' = op
            /\ UNCHANGED <<xfails, xret>>
       ELSE /\ xpc' = "idle"
            /\ xfails' = IF op = "step" THEN xfails + 1 ELSE xfails
            /\ xret' = XRet(op, early)
    /\ UNCHANGED <<xsteps, cmd, handlerVars, strategyVars, genVars>>

\* BaseExperiment.Step, lines 79-87, and BaseExperiment.Run, line 96, from
\* the return of environment.Step with the error err
Leave(err) ==
    /\ xpc # "idle"
    /\ xpc' = "idle"
    /\ xret' = XRet(xpc, err)
    /\ metrics' = IF xpc = "step" THEN RecordPost(metrics, GetStateAfter, err)
                  ELSE metrics
    /\ xsteps' = IF xpc = "step" /\ err = "nil" THEN xsteps + 1 ELSE xsteps
    /\ xfails' = IF xpc = "step" /\ err # "nil" THEN xfails + 1 ELSE xfails
    /\ UNCHANGED <<xcalls, xenv, cmd, handlerVars, strategyVars, genVars>>

\* the error a call of the donor environment's Step returns at once
StepEarly == IF OddRoster(Len(agents)) THEN "need even number of agents" ELSE "nil"

\* the fixed-step experiment over the environment the command built: agents
\* are created and added, then Step and Run are called
NextFixed ==
    \/ \E id \in Ids :
           cmd = "chat" /\ xcalls = 0 /\ Subscribe(id, <<id, 1>>) /\ UNCHANGED extVars
    \/ \E a \in Ids :
           cmd = "chat" /\ xcalls = 0 /\ BaseAddAgent(a) /\ UNCHANGED <<cmd, handlerVars, expVars>>
    \/ \E op \in {"step", "run"} :
           cmd = "chat" /\ BaseStepBegin /\ Enter(op, "nil")
    \/ \E i \in DOMAIN runs, ok \in BOOLEAN :
           cmd = "chat" /\ RunComplete(i, ok) /\ UNCHANGED <<cmd, handlerVars, expVars>>
    \/ \E i \in DOMAIN runs :
           \E order \in Perms(BroadcastRecipients(subscribers, baseAgents[i])) :
               cmd = "chat" /\ RunSend(i, order) /\ UNCHANGED <<cmd, handlerVars, expVars>>
    \/ cmd = "chat" /\ BaseStepEnd /\ Leave("nil")
    \/ \E a \in Addable :
           cmd = "donor-game" /\ xpc = "idle" /\ Len(agents) < RosterCap
               /\ AddAgent(a) /\ UNCHANGED extVars
    \/ \E p \in Perms(1..Len(agents)), op \in {"step", "run"} :
           cmd = "donor-game" /\ StepCall(p) /\ Enter(op, StepEarly)
               /\ UNCHANGED baseVars
    \/ \E t \in tasks, response \in Responses :
           cmd = "donor-game" /\ Decide(t, response) /\ UNCHANGED extVars
    \/ cmd = "donor-game" /\ Cancel /\ UNCHANGED extVars
    \/ cmd = "donor-game" /\ CollectRecord /\ UNCHANGED extVars
    \/ cmd = "donor-game" /\ CollectCancelled /\ Leave("context canceled")
           /\ UNCHANGED baseVars
    \/ cmd = "donor-game" /\ AdvanceRound /\ UNCHANGED extVars
    \/ cmd = "donor-game" /\ ApplyDonation /\ UNCHANGED extVars
    \/ cmd = "donor-game" /\ StepEnd /\ Leave("nil") /\ UNCHANGED baseVars

(***************************************************************************)
(* Generational experiment: DonorGameExperiment (pkg/experiment).          *)
(***************************************************************************)
\* the survivor-ratio flag, 0.5 by default
SurvivorRatio == [num |-> 1, den |-> 2]

\* selectSurvivors, line 142: int(float64(numAgents) * survivorRatio)
NumSurvivors(numAgents) == (numAgents * SurvivorRatio.num) \div SurvivorRatio.den

\* the configurations a run is made with
Configs == [numAgents : 1..MaxAgents, numGenerations : 1..MaxGenerations]

\* GenerateStrategy, lines 113-120: generation 1 is asked to create a
\* strategy, a later one to modify the advice it is given
StrategyPrompt(generation, previousGenAdvice) ==
    IF generation = 1 THEN [ask |-> "create", advice |-> <<>>]
    ELSE [ask |-> "modify", advice |-> previousGenAdvice]
NoPrompt == [ask |-> "none", advice |-> <<>>]

\* NewDonorGameExperiment with the configuration c
InitGenerational(c) ==
    /\ conf = c
    /\ gpc = "off"
    /\ gen = 0
    /\ created = 0
    /\ round = 0
    /\ survivorAdvice = <<>>
    /\ advised = [a \in AllAgents |-> NoPrompt]
    /\ played = 0
    /\ gret = "none"

\* what the completion calls of a run return: an error, a text with the
\* strategy line, a text without it
Replies ==
    {c \in Completions :
        \/ c.err # "nil"
        \/ /\ Len(c.text) = 1
           /\ c.text[1].rest # "" \/ c.text[1].head # Marker}

\* Run, lines 60-63, and initializeGeneration, lines 102-104: the first
\* generation is initialized with no advice, beginning with a Reset
RunCall ==
    /\ gpc = "off"
    /\ Reset
    /\ gpc' = "create"
    /\ gen' = 1
    /\ created' = 0
    /\ survivorAdvice' = <<>>
    /\ UNCHANGED <<conf, round, advised, played, gret, strategyVars, fixedVars,
                   cmd, handlerVars, baseVars>>

\* initializeGeneration, lines 107-123: one iteration of the loop creates the
\* agent, has it generate its strategy and adds it to the environment
CreateAgent(first, retry) ==
    /\ gpc = "create"
    /\ created < conf.numAgents
    /\ LET id == AgentID(gen, created)
       IN  /\ GenerateStrategy(id, first, retry)
           /\ advised' = [advised EXCEPT ![id] = StrategyPrompt(gen, survivorAdvice)]
           /\ IF sret'.err = "nil"
              THEN /\ AddAgent(id)
                   /\ created' = created + 1
                   /\ UNCHANGED <<gpc, gret>>
              ELSE /\ gpc' = "failed"
                   /\ gret' = "failed to generate strategy"
                   /\ UNCHANGED <<created, donorVars, brokerVars, memoryVars>>
    /\ UNCHANGED <<conf, gen, round, survivorAdvice, played, fixedVars, cmd, handlerVars,
                   baseVars>>

\* initializeGeneration returns nil; runGeneration, lines 130-131, begins
RunGeneration ==
    /\ gpc = "create"
    /\ created = conf.numAgents
    /\ gpc' = "rounds"
    /\ round' = 0
    /\ UNCHANGED <<conf, gen, created, survivorAdvice, advised, played, gret,
                   strategyVars, fixedVars, cmd, handlerVars, baseVars, donorVars, brokerVars,
                   memoryVars>>

\* runGeneration, lines 131-134: the loop calls the environment's Step
RoundsLeftOnce(r) == r = 0
RoundsLeft(r) == r < RoundsPerGen

RoundCall(p) ==
    /\ gpc = "rounds"
    /\ RoundsLeft(round)
    /\ StepCall(p)
    /\ IF OddRoster(Len(agents))
       THEN /\ gpc' = "failed"
            /\ gret' = dret'.err
       ELSE /\ gpc' = "step"
            /\ UNCHANGED gret
    /\ UNCHANGED <<conf, gen, created, round, survivorAdvice, advised, played,
                   strategyVars, fixedVars, cmd, handlerVars, baseVars>>

\* the Step returns nil: the loop goes on
RoundReturn ==
    /\ gpc = "step"
    /\ StepEnd
    /\ gpc' = "rounds"
    /\ round' = round + 1
    /\ played' = played + 1
    /\ UNCHANGED <<conf, gen, created, survivorAdvice, advised, gret,
                   strategyVars, fixedVars, cmd, handlerVars, baseVars>>

\* the Step returns the cancellation error: runGeneration and Run return it
RoundFailed ==
    /\ gpc = "step"
    /\ CollectCancelled
    /\ gpc' = "failed"
    /\ gret' = dret'.err
    /\ UNCHANGED <<conf, gen, created, round, survivorAdvice, advised, played,
                   strategyVars, fixedVars, cmd, handlerVars, baseVars>>

\* getSurvivorAdvice: one entry per survivor that is in the roster, with its
\* balance and its strategy
AdviceOfAll(survivors) ==
    [k \in 1..Len(agents) |->
        [id |-> agents[k], resources |-> Bal(AgentResources, agents[k]),
         strategy |-> strategy[agents[k]]]]
AdviceOf(survivors) ==
    LET found == SelectSeq(survivors, LAMBDA id : id \in Range(agents))
    IN  [k \in 1..Len(found) |->
            [id |-> found[k], resources |-> Bal(AgentResources, found[k]),
             strategy |-> strategy[found[k]]]]

\* Run, lines 70-79: runGeneration has returned nil; the survivors are
\* selected and their advice is built
SelectSurvivors(order) ==
    /\ gpc = "rounds"
    /\ ~RoundsLeft(round)
    /\ GetTopAgents(NumSurvivors(conf.numAgents), order)
    /\ survivorAdvice' = AdviceOf(top')
    /\ gpc' = "selected"
    /\ UNCHANGED <<conf, gen, created, round, advised, played, gret,
                   strategyVars, fixedVars, cmd, handlerVars, baseVars>>

\* Run, lines 82-94: the next generation is initialized with the advice,
\* beginning with a Reset, or Run returns nil after the last generation
NextGeneration ==
    /\ gpc = "selected"
    /\ IF gen < conf.numGenerations
       THEN /\ Reset
            /\ gen' = gen + 1
            /\ created' = 0
            /\ gpc' = "create"
            /\ UNCHANGED gret
       ELSE /\ gpc' = "done"
            /\ gret' = "nil"
            /\ UNCHANGED <<gen, created, donorVars, brokerVars, memoryVars>>
    /\ UNCHANGED <<conf, round, survivorAdvice, advised, played, strategyVars,
                   fixedVars, cmd, handlerVars, baseVars>>

\* a generational run, with the steps of the decision tasks and of the
\* environment's Step it calls
NextGen ==
    \/ RunCall
    \/ \E first \in Replies, retry \in Replies : CreateAgent(first, retry)
    \/ RunGeneration
    \/ \E p \in Perms(1..Len(agents)) : RoundCall(p)
    \/ \E t \in tasks, response \in Responses : Decide(t, response) /\ UNCHANGED extVars
    \/ Cancel /\ UNCHANGED extVars
    \/ CollectRecord /\ UNCHANGED extVars
    \/ AdvanceRound /\ UNCHANGED extVars
    \/ ApplyDonation /\ UNCHANGED extVars
    \/ RoundReturn
    \/ RoundFailed
    \/ \E order \in Perms(DOMAIN AgentResources) : SelectSurvivors(order)
    \/ NextGeneration

(***************************************************************************)
(* LLM agent message handler: LLMAgent.StartMessageHandler (pkg/agent).    *)
(***************************************************************************)
\* what the agents of the handler scenario say to each other
Said == {"hello", "bye"}

\* NewLLMAgent: the handler is not started, the memory log is empty
InitHandler ==
    /\ handler = [id \in Ids |-> "off"]
    /\ handlerCtx = FALSE
    /\ llmMemory = [id \in Ids |-> <<>>]

\* the channel NewLLMAgent makes for the agent and subscribes
messageChan(id) == <<id, 1>>

\* StartMessageHandler, line 179: the text stored for a message
MemoryEntry(msg) == "Message from " \o msg.From \o ": " \o msg.Content

\* StartMessageHandler: the goroutine is started for an agent NewLLMAgent has
\* made (and subscribed)
StartMessageHandler(id) ==
    /\ handler[id] = "off"
    /\ granted[id] = messageChan(id)
    /\ handler' = [handler EXCEPT ![id] = "running"]
    /\ UNCHANGED <<handlerCtx, llmMemory, brokerVars, memoryVars, donorVars>>

\* StartMessageHandler, lines 177-182, case msg := <-a.messageChan: the
\* message is taken from the queue and stored in the memory log; the select
\* may take this case also when ctx is cancelled
HandleMessageKeep(id) ==
    /\ handler[id] = "running"
    /\ chans[messageChan(id)] # <<>>
    /\ llmMemory' = [llmMemory EXCEPT ![id] =
           MemStore(@, LLMAgentMemoryCapacity, MemoryEntry(Head(chans[messageChan(id)])))]
    /\ UNCHANGED <<handler, handlerCtx, brokerVars, memoryVars, donorVars>>
HandleMessage(id) ==
    /\ handler[id] = "running"
    /\ chans[messageChan(id)] # <<>>
    /\ chans' = [chans EXCEPT ![messageChan(id)] = Tail(@)]
    /\ llmMemory' = [llmMemory EXCEPT ![id] =
           MemStore(@, LLMAgentMemoryCapacity, MemoryEntry(Head(chans[messageChan(id)])))]
    /\ UNCHANGED <<handler, handlerCtx, subscribers, ret, granted, npub,
                   memoryVars, donorVars>>

\* the ctx given to the handlers is cancelled
CancelHandlers ==
    /\ ~handlerCtx
    /\ handlerCtx' = TRUE
    /\ UNCHANGED <<handler, llmMemory, brokerVars, memoryVars, donorVars>>

\* StartMessageHandler, lines 183-184, case <-ctx.Done(): the goroutine ends
HandlerReturn(id) ==
    /\ handler[id] = "running"
    /\ handlerCtx
    /\ handler' = [handler EXCEPT ![id] = "returned"]
    /\ UNCHANGED <<handlerCtx, llmMemory, brokerVars, memoryVars, donorVars>>

\* the messages of the handler scenario: a1 speaks to one agent or to all
HandlerMessages ==
    [From : Senders, To : {<<>>} \cup {<<x>> : x \in Ids}, Content : Said]

\* agents are made and their handlers started, as runChatExperiment does;
\* messages are published while the handlers run
NextHandler ==
    \/ \E id \in Ids : Subscribe(id, messageChan(id)) /\ UNCHANGED extVars
    \/ \E id \in Ids :
           StartMessageHandler(id) /\ UNCHANGED <<cmd, baseVars, expVars>>
    \/ \E msg \in HandlerMessages :
           \E order \in (IF Len(msg.To) = 0
                         THEN Perms(BroadcastRecipients(subscribers, msg.From))
                         ELSE {<<>>}) :
               Publish(msg, order) /\ UNCHANGED extVars
    \/ \E id \in Ids : HandleMessage(id) /\ UNCHANGED <<cmd, baseVars, expVars>>
    \/ CancelHandlers /\ UNCHANGED <<cmd, baseVars, expVars>>
    \/ \E id \in Ids : HandlerReturn(id) /\ UNCHANGED <<cmd, baseVars, expVars>>

(***************************************************************************)
(* Specifications.                                                         *)
(***************************************************************************)
\* the state after construction: an empty broker, an empty environment and a
\* log that no text can enter
Init ==
    /\ InitBroker /\ NewMemory(0) /\ InitDonor /\ InitBase /\ InitFixed /\ InitStrategy /\ InitHandler
    /\ InitGenerational([numAgents |-> MaxAgents, numGenerations |-> MaxGenerations])
    /\ cmd = "donor-game"

\* the same with a log of any capacity up to MaxCapacity
InitLog ==
    /\ InitBroker /\ InitMemory /\ InitDonor /\ InitBase /\ InitFixed /\ InitStrategy /\ InitHandler
    /\ InitGenerational([numAgents |-> MaxAgents, numGenerations |-> MaxGenerations])
    /\ cmd = "donor-game"

\* either command of cmd/petri has built its environment
InitEnv ==
    /\ InitBroker /\ NewMemory(0) /\ InitDonor /\ InitBase /\ InitFixed /\ InitStrategy /\ InitHandler
    /\ InitGenerational([numAgents |-> MaxAgents, numGenerations |-> MaxGenerations])
    /\ cmd \in {"chat", "donor-game"}

\* the donor-game command with any configuration
InitRun ==
    /\ InitBroker /\ NewMemory(0) /\ InitDonor /\ InitBase /\ InitFixed /\ InitStrategy /\ InitHandler
    /\ \E c \in Configs : InitGenerational(c)
    /\ cmd = "donor-game"

SpecBroker == Init /\ [][NextBroker]_vars
SpecSubs == Init /\ [][NextSubs]_vars
SpecMemory == InitLog /\ [][NextMemory]_vars
SpecDonor == Init /\ [][NextDonor]_vars
SpecRoster == Init /\ [][NextRoster]_vars
SpecEnv == InitEnv /\ [][NextEnv]_vars
SpecFixed == InitEnv /\ [][NextFixed]_vars
SpecStrategy == Init /\ [][NextStrategy]_vars
SpecGen == InitRun /\ [][NextGen]_vars
SpecHandler == Init /\ [][NextHandler]_vars

\* a handler goroutine that can take a message is scheduled in the end
HandlerFairness == \A id \in Ids : WF_vars(HandleMessage(id) /\ UNCHANGED <<cmd, baseVars, expVars>>)
SpecHandlerLive == SpecHandler /\ HandlerFairness

(***************************************************************************)
(* Properties of the broker.                                               *)
(***************************************************************************)
\* this step is a Publish call; ret' holds its message and its result
PublishStep == ret'.op = "publish" /\ npub' = npub + 1

\* the ids a publish of msg resolves to: the subscribed ids named in To, or for
\* a broadcast every subscriber except the sender
Resolved(msg) ==
    IF Len(msg.To) = 0
    THEN {id \in Ids : granted[id] # NoChan /\ id # msg.From}
    ELSE {id \in Range(msg.To) : granted[id] # NoChan}

\* the messages this step added at the end of channel h
Added(h) == SubSeq(chans'[h], Len(chans[h]) + 1, Len(chans'[h]))

\* this step left what channel h held in place and only added to it
Extends(h) ==
    /\ Len(chans'[h]) >= Len(chans[h])
    /\ SubSeq(chans'[h], 1, Len(chans[h])) = chans[h]

\* C1: a broadcast (empty To) published with From = A leaves the queue that is
\* subscribed under A exactly as it was.
C1_BroadcastSkipsSender ==
    [][(PublishStep /\ Len(ret'.msg.To) = 0 /\ granted[ret'.msg.From] # NoChan)
          => chans'[granted[ret'.msg.From]] = chans[granted[ret'.msg.From]]]_vars

\* C1 witness: a subscribed sender has broadcast and another subscriber's
\* queue ends with the broadcast.
C1_Witness ==
    /\ ret.op = "publish" /\ Len(ret.msg.To) = 0 /\ ret.err = Nil
    /\ granted[ret.msg.From] # NoChan
    /\ \E id \in Ids \ {ret.msg.From} :
           /\ granted[id] # NoChan
           /\ Len(chans[granted[id]]) > 0
           /\ chans[granted[id]][Len(chans[granted[id]])] = ret.msg

\* C2: a publish changes no queue that is bound to no id by the results of
\* the subscribe and unsubscribe calls so far: after a successful
\* unsubscribe(id), the id's former queue receives nothing until it is
\* subscribed again.
C2_NoDeliveryToUnsubscribed ==
    [][PublishStep
          => \A h \in Chans :
                (\A id \in Ids : granted[id] # h) => chans'[h] = chans[h]]_vars

\* C2 witness: a publish has named an id that was unsubscribed after its queue
\* had received a message, and succeeded.
C2_Witness ==
    /\ ret.op = "publish" /\ ret.err = Nil
    /\ \E id \in Range(ret.msg.To) :
           /\ granted[id] = NoChan
           /\ \E h \in Chans : h[1] = id /\ Len(chans[h]) > 0

\* C3: every recipient a publish resolves whose queue is not full has the
\* message added to its queue by that publish, whatever the publish returns.
C3_NoLostDelivery ==
    [][PublishStep
          => \A id \in Resolved(ret'.msg) :
                Len(chans[granted[id]]) < ChanCap
                    => /\ Extends(granted[id])
                       /\ ret'.msg \in Range(Added(granted[id]))]_vars

\* C4: a publish that resolves a recipient whose queue is at capacity returns
\* an error and leaves that recipient's queue exactly as it was.
C4_FullQueueRejects ==
    [][PublishStep
          => \A id \in Resolved(ret'.msg) :
                Len(chans[granted[id]]) >= ChanCap
                    => /\ ret'.err # Nil
                       /\ chans'[granted[id]] = chans[granted[id]]]_vars

\* C4 witness: a direct publish to a subscribed recipient with a full queue has
\* returned the error naming it, and the queue holds another message.
C4_Witness ==
    /\ ret.op = "publish" /\ ret.err.kind = "full"
    /\ granted[ret.err.id] # NoChan
    /\ Len(chans[granted[ret.err.id]]) = ChanCap
    /\ ret.msg \notin Range(chans[granted[ret.err.id]])

\* the number of the first n recipients of rcpts that are bound to channel h
RECURSIVE Sends(_, _, _)
Sends(rcpts, n, h) ==
    IF n = 0 THEN 0
    ELSE Sends(rcpts, n - 1, h) + (IF granted[rcpts[n]] = h THEN 1 ELSE 0)

\* C5: when a publish fails on a saturated recipient, every queue holds what
\* it held before followed by one copy of the message per delivery made
\* before the failure (nothing is rolled back), and the single error names
\* the recipient at which the publish stopped.
C5_NoRollback ==
    [][(PublishStep /\ ret'.err # Nil)
          => /\ ret'.done < Len(ret'.rcpts)
             /\ ret'.err = ErrFull(ret'.rcpts[ret'.done + 1])
             /\ \A h \in Chans :
                    /\ Extends(h)
                    /\ Len(Added(h)) = Sends(ret'.rcpts, ret'.done, h)
                    /\ \A m \in Range(Added(h)) : m = ret'.msg]_vars

\* C5 witness: a publish failed on its second or later recipient after it had
\* delivered to an earlier one, whose queue ends with the message.
C5_Witness ==
    /\ ret.op = "publish" /\ ret.err.kind = "full" /\ ret.done >= 1
    /\ \E i \in 1..ret.done :
           /\ granted[ret.rcpts[i]] # NoChan
           /\ granted[ret.rcpts[i]] # granted[ret.err.id]
           /\ Len(chans[granted[ret.rcpts[i]]]) > 0
           /\ chans[granted[ret.rcpts[i]]][Len(chans[granted[ret.rcpts[i]]])] = ret.msg

\* C6: subscribe of a subscribed id fails and leaves the map as it is,
\* subscribe of an unsubscribed id binds it to the given queue; unsubscribe of
\* an unsubscribed id fails and leaves the map as it is, unsubscribe of a
\* subscribed id removes it.
C6_SubscriptionManagement ==
    [][/\ ret'.op = "subscribe" =>
            IF subscribers[ret'.id] # NoChan
            THEN ret'.err = ErrAlreadySubscribed(ret'.id) /\ subscribers' = subscribers
            ELSE ret'.err = Nil
                 /\ subscribers' = [subscribers EXCEPT ![ret'.id] = ret'.ch]
       /\ ret'.op = "unsubscribe" =>
            IF subscribers[ret'.id] = NoChan
            THEN ret'.err = ErrNotSubscribed(ret'.id) /\ subscribers' = subscribers
            ELSE ret'.err = Nil
                 /\ subscribers' = [subscribers EXCEPT ![ret'.id] = NoChan]]_vars

\* C6 witness: a subscribe of an already subscribed id with another queue has
\* failed and the id is bound to its original queue.
C6_Witness ==
    /\ ret.op = "subscribe" /\ ret.err.kind = "already"
    /\ subscribers[ret.id] # NoChan
    /\ subscribers[ret.id] # ret.ch

\* C7: a direct publish that meets no full queue returns success, adds only
\* copies of the message (From and Content as published) to the queue of each
\* subscribed id named in To, at least one to each, and changes no other queue;
\* unsubscribed ids in To are skipped.
C7_DirectDelivery ==
    [][(PublishStep /\ Len(ret'.msg.To) > 0
        /\ \A id \in Resolved(ret'.msg) :
               Len(chans[granted[id]]) + Sends(ret'.msg.To, Len(ret'.msg.To), granted[id])
                   <= ChanCap)
          => /\ ret'.err = Nil
             /\ \A id \in Resolved(ret'.msg) :
                    /\ Extends(granted[id])
                    /\ Len(Added(granted[id])) >= 1
                    /\ \A m \in Range(Added(granted[id])) :
                           m.From = ret'.msg.From /\ m.Content = ret'.msg.Content
             /\ \A h \in Chans :
                    (\A id \in Resolved(ret'.msg) : granted[id] # h)
                        => chans'[h] = chans[h]]_vars

\* C7 witness: a direct publish naming a subscribed and an unsubscribed id has
\* succeeded, the subscribed one holds the message and the subscribed sender's
\* queue is empty.
C7_Witness ==
    /\ ret.op = "publish" /\ ret.err = Nil /\ Len(ret.msg.To) = 2
    /\ granted[ret.msg.From] # NoChan
    /\ chans[granted[ret.msg.From]] = <<>>
    /\ \E i, j \in 1..2 :
           /\ granted[ret.msg.To[i]] = NoChan
           /\ granted[ret.msg.To[j]] # NoChan
           /\ ret.msg \in Range(chans[granted[ret.msg.To[j]]])

(***************************************************************************)
(* Properties of the memory log.                                           *)
(***************************************************************************)
\* this step is a Store call; the last element of stored' is its text
StoreStep == Len(stored') = Len(stored) + 1

\* the last n elements of the sequence s
LastN(s, n) == SubSeq(s, Len(s) - n + 1, Len(s))

\* C8: the log never holds more entries than its capacity, and a store leaves
\* either the old entries followed by the new text, or that sequence without
\* its first (oldest) entry.
C8_BoundedLog ==
    /\ [](Len(memoryStream) <= capacity)
    /\ [][StoreStep
             => LET full == Append(memoryStream, stored'[Len(stored')])
                IN  memoryStream' = full \/ memoryStream' = Tail(full)]_vars

\* C8 witness: a store into a full log of capacity two or more has evicted.
C8_Witness ==
    /\ mret = "store" /\ capacity >= 2
    /\ Len(stored) > capacity
    /\ Len(memoryStream) = capacity

\* C9: a snapshot taken after n stores into an empty log returns the last
\* min(n, capacity) stored texts in insertion order.
C9_SnapshotIsRecentSuffix ==
    mret = "snapshot"
        => messages = LastN(stored, IF Len(stored) <= capacity
                                    THEN Len(stored) ELSE capacity)

\* C9 witness: a snapshot after capacity + 2 stores into a log of capacity two.
C9_Witness ==
    /\ mret = "snapshot" /\ capacity = 2
    /\ Len(stored) = capacity + 2
    /\ Len(messages) = capacity
    /\ stored[1] # stored[3]

(***************************************************************************)
(* Properties of the donor game.                                           *)
(***************************************************************************)
\* this step applies the donation donations[applied + 1] to the ledger
ApplyStep == pc = "apply" /\ applied' = applied + 1

\* the ledger conservation of one applied donation d
Conserves(d) ==
    /\ Bal(AgentResources', d.donorID) = Bal(AgentResources, d.donorID) - d.amount
    /\ Bal(AgentResources', d.recipientID)
           = Bal(AgentResources, d.recipientID) + d.amount * DonationMult
    /\ \A id \in Agents \ {d.donorID, d.recipientID} :
           /\ (id \in DOMAIN AgentResources') = (id \in DOMAIN AgentResources)
           /\ Bal(AgentResources', id) = Bal(AgentResources, id)
    /\ d.amount <= Bal(AgentResources, d.donorID)

\* C10: applying a successful donation record debits its amount from the
\* donor's balance, credits amount * donationMultiplier to the recipient's
\* balance, changes no other ledger entry, and the amount is at most the
\* donor's balance just before.
C10_LedgerConservation ==
    [][ApplyStep => Conserves(donations[applied + 1])]_vars

\* the roster names no id twice
DistinctRoster ==
    \A i, j \in 1..Len(agents) : agents[i] = agents[j] => i = j

\* C10 on rosters without a repeated id, where every agent is in one pair
C10_LedgerConservationDistinct ==
    [][(ApplyStep /\ DistinctRoster) => Conserves(donations[applied + 1])]_vars

\* a round of two pairs of four different agents has applied a clamped
\* donation and a partial one
C10_DistinctReached ==
    /\ pc = "apply" /\ applied = 2 /\ DistinctRoster /\ Len(agents) = 4
    /\ \E i, j \in 1..2 :
           /\ donations[i].amount = InitialBalance
           /\ Bal(AgentResources, donations[i].donorID) = 0
           /\ donations[j].amount = 1

\* C11: a Step called on a roster of odd size returns the odd-roster error,
\* launches no decision task and leaves the roster, the ledger, the donation
\* counters and the round counters exactly as they were.
C11_OddRosterRejected ==
    [][(pc = "idle" /\ Len(agents) % 2 = 1
        /\ (pc' # "idle" \/ (dret' # dret /\ dret'.op = "step")))
          => /\ dret'.err = "need even number of agents"
             /\ pc' = "idle"
             /\ tasks' = tasks /\ donationChan' = donationChan
             /\ agents' = agents
             /\ ledgerVars' = ledgerVars]_vars

\* C11 witness: after a played round a third agent was added and Step has
\* returned the odd-roster error.
C11_Witness ==
    /\ dret = DRet("step", "none", "need even number of agents")
    /\ pc = "idle" /\ Len(agents) = 3
    /\ SuccessfulDonations = 1 /\ TotalRounds = 1
    /\ \E a \in Range(agents) : Bal(AgentResources, a) > InitialBalance

\* C12: in every reachable state the ids of the roster are exactly the ids
\* with a ledger entry, and a ledger entry disappears only by the successful
\* removal of its agent or by a reset.
C12_LedgerMatchesRoster ==
    /\ [](DOMAIN AgentResources = Range(agents))
    /\ [][\A id \in DOMAIN AgentResources :
             id \notin DOMAIN AgentResources'
                 => \/ dret'.op = "reset"
                    \/ dret' = DRet("removeAgent", id, "nil")]_vars

\* this step is a call AddAgent(a)
AddStep(a) ==
    /\ dret'.op = "addAgent" /\ dret'.id = a
    /\ (dret' # dret \/ agents' # agents)

\* C13: AddAgent of an id that is in the roster fails with the duplicate-agent
\* error and leaves roster and ledger unchanged; AddAgent of a new id appends
\* it and seeds its ledger entry with initialBalance.
C13_DuplicateRejected ==
    [][\A a \in Agents :
          AddStep(a)
              => IF a \in Range(agents)
                 THEN /\ dret'.err # "nil"
                      /\ agents' = agents
                      /\ AgentResources' = AgentResources
                 ELSE /\ dret'.err = "nil"
                      /\ agents' = Append(agents, a)
                      /\ AgentResources'
                             = SetBal(AgentResources, a, InitialBalance)]_vars

\* C14: every ledger balance is >= 0 in every reachable state, and every
\* applied donation amount lies between 0 and the donor's balance at the
\* moment it is applied.
C14_NonNegativeBalances ==
    /\ [](\A id \in DOMAIN AgentResources : AgentResources[id] >= 0)
    /\ [][ApplyStep
             => /\ donations[applied + 1].amount >= 0
                /\ donations[applied + 1].amount
                       <= Bal(AgentResources, donations[applied + 1].donorID)]_vars

\* this step is the return of a Step that has collected every record
ReturnStep == pc = "apply" /\ pc' = "idle"

\* the pairs of the running Step whose decision produced no donation
FailedPairs ==
    {k \in 1..Pairs :
        ~\E i \in 1..Len(donations) :
            /\ donations[i].donorID = shuffled[2 * k - 1]
            /\ donations[i].recipientID = shuffled[2 * k]}

\* C15: when a Step returns after decisions of some pairs failed, it returns
\* success, failedDonations has grown by one per failed pair and
\* successfulDonations by one per other pair, and the balances of the donor and
\* the recipient of every failed pair are what they were when Step was called.
C15_FailedDecisionIsolated ==
    [][ReturnStep
          => /\ dret'.err = "nil"
             /\ FailedDonations' = entry.failed + Cardinality(FailedPairs)
             /\ SuccessfulDonations'
                    = entry.successful + Pairs - Cardinality(FailedPairs)
             /\ \A k \in FailedPairs :
                    \A a \in {shuffled[2 * k - 1], shuffled[2 * k]} :
                        Bal(AgentResources', a) = Bal(entry.res, a)]_vars

\* C16: GetTopAgents(n) returns min(n, roster size) distinct ids of the
\* roster in non-increasing order of balance, and no roster id left out has a
\* larger balance than a returned one.
C16_TopAgentsRanked ==
    (dret.op = "topAgents" /\ pc = "idle")
        => /\ Len(top) = (IF dret.id < Len(agents) THEN dret.id ELSE Len(agents))
           /\ \A i, j \in 1..Len(top) : top[i] = top[j] => i = j
           /\ Range(top) \subseteq Range(agents)
           /\ \A i, j \in 1..Len(top) :
                  i < j => Bal(AgentResources, top[i]) >= Bal(AgentResources, top[j])
           /\ \A a \in Range(top), b \in Range(agents) \ Range(top) :
                  Bal(AgentResources, a) >= Bal(AgentResources, b)

\* C17: a GetTopAgents(n) call that follows a GetTopAgents(n) call with the
\* same n, with no other call in between, returns the same sequence of ids.
C17_TopAgentsDeterministic ==
    [][(dret.op = "topAgents" /\ dret'.op = "topAgents" /\ dret'.id = dret.id)
          => top' = top]_vars

\* this step receives the record at the head of the running Step's channel
CollectStep == pc = "collect" /\ collected' = collected + 1

\* C18: a Step that has left its collection loop has received one record per
\* pair, and successfulDonations + failedDonations has grown by the number of
\* pairs; every received error record adds one to failedDonations only and is
\* not kept for application, every other record adds one to successfulDonations
\* only and is kept.
C18_OneRecordPerPair ==
    /\ [](pc = "apply"
            => /\ collected = Len(agents) \div 2
               /\ SuccessfulDonations + FailedDonations
                      = entry.successful + entry.failed + Len(agents) \div 2
               /\ Len(donations) = SuccessfulDonations - entry.successful
               /\ \A i \in 1..Len(donations) : donations[i].err = "nil")
    /\ [][CollectStep
             => LET d == Head(donationChan[nsteps])
                IN  IF d.err # "nil"
                    THEN /\ FailedDonations' = FailedDonations + 1
                         /\ SuccessfulDonations' = SuccessfulDonations
                         /\ donations' = donations
                    ELSE /\ SuccessfulDonations' = SuccessfulDonations + 1
                         /\ FailedDonations' = FailedDonations
                         /\ donations' = Append(donations, d)]_vars

\* C18 witness: a round of two pairs has collected one error record and one
\* success record and applied the success.
C18_Witness ==
    /\ pc = "apply" /\ Len(agents) = 4 /\ collected = 2
    /\ FailedDonations = entry.failed + 1
    /\ SuccessfulDonations = entry.successful + 1
    /\ applied = 1

\* C19: when a Step returns after its round, every roster agent is at exactly
\* one position of the shuffled roster (so in one pair, in one role), every
\* kept donation has been applied, and the ledger is the ledger Step was
\* called with, with one debit at the donor and one credit at the recipient of
\* every kept donation and no other change.
C19_EachPairAppliedOnce ==
    [][ReturnStep
          => /\ Len(shuffled) = Len(agents)
             /\ \A a \in Range(agents) :
                    Cardinality({k \in 1..Len(shuffled) : shuffled[k] = a}) = 1
             /\ applied = Len(donations)
             /\ \A i \in 1..Len(donations) :
                    /\ Bal(AgentResources', donations[i].donorID)
                           = Bal(entry.res, donations[i].donorID) - donations[i].amount
                    /\ Bal(AgentResources', donations[i].recipientID)
                           = Bal(entry.res, donations[i].recipientID)
                                 + donations[i].amount * DonationMult
             /\ \A a \in Range(agents) :
                    (\A i \in 1..Len(donations) :
                         a # donations[i].donorID /\ a # donations[i].recipientID)
                        => Bal(AgentResources', a) = Bal(entry.res, a)
             /\ DOMAIN AgentResources' = DOMAIN entry.res]_vars

\* the running Step is in its collection loop with no record to receive
Waiting ==
    /\ pc = "collect"
    /\ collected < Len(agents) \div 2
    /\ donationChan[nsteps] = <<>>

\* this step is a Step returning out of its collection loop
CancelReturn == pc = "collect" /\ pc' = "idle"

\* C20: a Step that waits for records with its context cancelled can return
\* and can do nothing else, whether or not decisions are still running; a Step
\* returns out of its collection loop only on a cancelled context, with the
\* cancellation error, and leaves the roster as it is, the ledger as it was
\* when Step was called, and round and totalRounds not advanced.
C20_CancelAborts ==
    /\ []((Waiting /\ ctxDone)
            => /\ ENABLED CollectCancelled
               /\ ~ENABLED CollectRecord
               /\ ~ENABLED AdvanceRound)
    /\ [][CancelReturn
             => /\ ctxDone
                /\ dret' = DRet("step", "none", "context canceled")
                /\ agents' = agents
                /\ AgentResources' = entry.res
                /\ Round' = entry.round
                /\ TotalRounds' = entry.total]_vars

\* C20 witness: a Step of two pairs has received one donation, was cancelled
\* and has returned the cancellation error while the other decision is still
\* running; every balance is the initial balance.
C20_Witness ==
    /\ dret = DRet("step", "none", "context canceled")
    /\ pc = "idle" /\ Len(agents) = 4
    /\ SuccessfulDonations = 1
    /\ \E t \in tasks : t.step = nsteps
    /\ \A a \in Range(agents) : Bal(AgentResources, a) = InitialBalance

\* the memory log of id grows by exactly n entries in this step
Grows(id, n) == Len(agentMemory'[id]) = Len(agentMemory[id]) + n

\* C30: every successful donation that is applied appends exactly one entry
\* to the memory log of its donor and exactly one to the log of its
\* recipient, wherever the two stand in the roster, and no entry to any other
\* log; no other step of a round appends to a log, so the agents of a pair
\* whose decision failed get none.
C30_ProvenanceEntries ==
    [][/\ ApplyStep
          => LET d == donations[applied + 1]
             IN  /\ d.donorID # d.recipientID
                    => Grows(d.donorID, 1) /\ Grows(d.recipientID, 1)
                 /\ \A a \in Agents \ {d.donorID, d.recipientID} : Grows(a, 0)
       /\ ~ApplyStep => agentMemory' = agentMemory]_vars

(***************************************************************************)
(* Properties of the generic environment.                                  *)
(***************************************************************************)
\* this step is a Step of the generic environment taking the lock
BaseStepCall == basePc = "idle" /\ basePc' = "wait"

\* this step is a Step of the generic environment returning
BaseStepReturn == basePc = "wait" /\ basePc' = "idle"

\* this step is a call of Reset on the generic environment
BaseResetStep == basePc = "idle" /\ basePc' = "idle" /\ bret'.op = "reset"

\* this step is a call of Reset on the donor environment (or leaves the
\* state such a call produced as it is)
DonorResetStep == pc = "idle" /\ pc' = "idle" /\ dret'.op = "reset"

\* C21: the status of the generic environment is idle initially; a Step makes
\* it running and adds exactly one to the step counter; a running status
\* becomes idle again only by a Reset.
C21_StatusLifecycle ==
    /\ baseState.Status = "idle"
    /\ [][BaseStepCall
             => /\ baseState'.Status = "running"
                /\ baseState'.Step = baseState.Step + 1]_vars
    /\ [][(baseState.Status = "running" /\ baseState'.Status = "idle")
             => BaseResetStep]_vars

RunReturn ==
    \/ xpc = "run" /\ xpc' = "idle"
    \/ xpc = "idle" /\ xcalls' = xcalls + 1 /\ xpc' = "idle" /\ xret'.op = "run"

\* this step is a call of the experiment's Step
ExpStepCall ==
    /\ xpc = "idle" /\ xcalls' = xcalls + 1
    /\ xpc' = "step" \/ (xpc' = "idle" /\ xret'.op = "step")

\* this step is the experiment's Step returning after its environment step
ExpStepReturn == xpc = "step" /\ xpc' = "idle"

\* C27: a Run that returns nil has executed the environment's step exactly the
\* configured number of times; a Run that returns an error has executed at
\* most that many and returns the error of its last environment step.
C27_RunExecutesConfiguredSteps ==
    [][RunReturn
          => IF xret'.err = "nil" THEN xenv' = Steps
             ELSE xenv' <= Steps]_vars

\* C28: a Step of the experiment records the state before its environment
\* step, nothing while the environment step runs, and the state after it
\* when the environment step returned nil and nothing when it failed; so
\* between calls the metrics hold two snapshots for every Step that succeeded
\* and one for every Step that failed, and with no failure every pair is a
\* state and the state one round later.
C28_SnapshotsAroundStep ==
    /\ [][ExpStepCall
             => /\ Len(metrics') = Len(metrics) + 1
                /\ metrics'[Len(metrics')] = GetState
                /\ SubSeq(metrics', 1, Len(metrics)) = metrics]_vars
    /\ [][(xpc = "step" /\ xpc' = "step") => metrics' = metrics]_vars
    /\ [][ExpStepReturn
             => IF xret'.err = "nil"
                THEN /\ Len(metrics') = Len(metrics) + 1
                     /\ metrics'[Len(metrics')] = GetStateAfter
                     /\ SubSeq(metrics', 1, Len(metrics)) = metrics
                ELSE metrics' = metrics]_vars
    /\ [](xpc = "idle" => Len(metrics) = 2 * xsteps + xfails)
    /\ []((xpc = "idle" /\ xfails = 0 /\ cmd = "donor-game")
             => \A j \in 1..xsteps :
                    metrics[2 * j].TotalRounds = metrics[2 * j - 1].TotalRounds + 1)

\* C28 witness: two Steps of the experiment over the donor environment have
\* succeeded and the metrics hold the four snapshots of rounds 0, 1, 1 and 2.
C28_Witness ==
    /\ cmd = "donor-game" /\ xpc = "idle"
    /\ xsteps = 2 /\ xfails = 0
    /\ Len(metrics) = 4
    /\ metrics[1].TotalRounds = 0 /\ metrics[2].TotalRounds = 1
    /\ metrics[3].TotalRounds = 1 /\ metrics[4].TotalRounds = 2

(***************************************************************************)
(* Properties of strategy generation.                                      *)
(***************************************************************************)
\* the text has a line that begins with the marker phrase
HasMarkerLine(text) == \E i \in DOMAIN text : text[i].head = Marker

\* this step is a call of GenerateStrategy
StrategyStep == <<strategy, calls, sret>>' # <<strategy, calls, sret>>

\* C26: strategy generation makes one completion call or two; a first
\* response with a line that begins with the marker is adopted with no
\* further call; any other first response is followed by exactly one retry
\* call; the generation fails exactly when a call returned an error or the
\* retry response has no such line either, and a failed generation leaves the
\* agent's strategy as it was.
C26_StrategyRetryOnce ==
    [][StrategyStep
          => LET first == sret'.first
                 retry == sret'.retry
             IN  /\ calls' \in {1, 2}
                 /\ first.err # "nil" => (calls' = 1 /\ sret'.err # "nil")
                 /\ (first.err = "nil" /\ HasMarkerLine(first.text))
                        => (calls' = 1 /\ sret'.err = "nil")
                 /\ (first.err = "nil" /\ ~HasMarkerLine(first.text))
                        => /\ calls' = 2
                           /\ sret'.err # "nil"
                                <=> (retry.err # "nil" \/ ~HasMarkerLine(retry.text))
                 /\ sret'.err # "nil" => strategy' = strategy]_vars

(***************************************************************************)
(* Properties of the generational experiment.                              *)
(***************************************************************************)
\* the ids of the agents of generation g in a run of n agents
GenerationIds(g, n) == {AgentID(g, i) : i \in 0..(n - 1)}

\* this step ends the initialization of a generation
InitializedStep == gpc = "create" /\ gpc' = "rounds"

\* this step ends the rounds of a generation with the selection of survivors
SelectedStep == gpc = "rounds" /\ gpc' = "selected"

\* C24: when a generation has been initialized the roster is its numAgents
\* new agents, each with the initial balance and an empty memory log, and the
\* round and donation counters are 0; when its survivors are selected exactly
\* roundsPerGeneration rounds have been run since; a run that returns nil has
\* gone through numGenerations generations and numGenerations *
\* roundsPerGeneration rounds; a Step that returns an error ends the run with
\* that error, and an ended run makes no further Step.
C24_GenerationsAndRounds ==
    /\ [][InitializedStep
             => /\ gen \in 1..conf.numGenerations
                /\ Len(agents) = conf.numAgents
                /\ Range(agents) = GenerationIds(gen, conf.numAgents)
                /\ DOMAIN AgentResources = GenerationIds(gen, conf.numAgents)
                /\ \A a \in Range(agents) :
                       /\ AgentResources[a] = InitialBalance
                       /\ agentMemory[a] = <<>>
                /\ SuccessfulDonations = 0 /\ FailedDonations = 0
                /\ Round = 0 /\ TotalRounds = 0]_vars
    /\ [][SelectedStep
             => /\ round = RoundsPerGen
                /\ TotalRounds = RoundsPerGen
                /\ played = gen * RoundsPerGen
                /\ SuccessfulDonations + FailedDonations
                       = RoundsPerGen * (conf.numAgents \div 2)]_vars
    /\ [](gpc = "done"
            => /\ gret = "nil"
               /\ gen = conf.numGenerations
               /\ played = conf.numGenerations * RoundsPerGen)
    /\ [][(gpc \in {"rounds", "step"} /\ dret'.op = "step" /\ dret'.err # "nil")
             => (gpc' = "failed" /\ gret' = dret'.err)]_vars
    /\ [][(gpc = "failed" \/ gpc = "done")
             => /\ gpc' = gpc /\ nsteps' = nsteps
                /\ played' = played /\ dret' = dret]_vars

\* C24 witness: a run of two generations of two agents has returned nil after
\* four rounds, and both decisions of the last generation failed.
C24_Witness ==
    /\ gpc = "done"
    /\ conf = [numAgents |-> 2, numGenerations |-> 2]
    /\ played = 2 * RoundsPerGen
    /\ FailedDonations = RoundsPerGen

\* C25: the agents of generation 1 are asked to create a strategy, with no
\* advice; an agent of generation g > 1 is given the advice built at the last
\* selection; that advice is built when the rounds of generation g - 1 are
\* over and its roster and ledger still stand, it has one entry for each of
\* floor(numAgents * survivorRatio) different agents of that generation with
\* the agent's balance, and no agent left out has a larger balance than an
\* agent in it; nothing else changes the advice.
C25_AdviceFromSurvivors ==
    /\ [][SelectedStep
             => LET n == (conf.numAgents * SurvivorRatio.num) \div SurvivorRatio.den
                    ids == {survivorAdvice'[k].id : k \in DOMAIN survivorAdvice'}
                IN  /\ round = RoundsPerGen /\ TotalRounds = RoundsPerGen
                    /\ Range(agents) = GenerationIds(gen, conf.numAgents)
                    /\ agents' = agents /\ AgentResources' = AgentResources
                    /\ Len(survivorAdvice') = n
                    /\ Cardinality(ids) = n
                    /\ ids \subseteq Range(agents)
                    /\ \A k \in DOMAIN survivorAdvice' :
                           survivorAdvice'[k].resources
                               = AgentResources[survivorAdvice'[k].id]
                    /\ \A a \in ids, b \in Range(agents) \ ids :
                           AgentResources[a] >= AgentResources[b]]_vars
    /\ [][survivorAdvice' # survivorAdvice => SelectedStep]_vars
    /\ [][\A g \in 1..MaxGenerations, i \in 0..(MaxAgents - 1) :
              advised'[AgentID(g, i)] # advised[AgentID(g, i)]
                  => /\ g = gen
                     /\ IF g = 1
                        THEN advised'[AgentID(g, i)] = [ask |-> "create", advice |-> <<>>]
                        ELSE /\ advised'[AgentID(g, i)]
                                    = [ask |-> "modify", advice |-> survivorAdvice]
                             /\ \A k \in DOMAIN survivorAdvice :
                                    survivorAdvice[k].id
                                        \in GenerationIds(g - 1, conf.numAgents)]_vars

\* C25 witness: the first agent of generation 2 has been given the advice of
\* the one survivor of generation 1, whose balance had grown.
C25_Witness ==
    /\ conf.numAgents = 2
    /\ gen = 2
    /\ advised[AgentID(2, 0)].ask = "modify"
    /\ Len(advised[AgentID(2, 0)].advice) = 1
    /\ advised[AgentID(2, 0)].advice[1].id \in GenerationIds(1, 2)
    /\ advised[AgentID(2, 0)].advice[1].resources > InitialBalance

\* C29: round and totalRounds change only together, by one each, once every
\* record of the round is collected and before any is applied, or when round
\* is set back to 0 as the Step returns with round at roundsPerGeneration, or
\* by a Reset; a Step that returns after its round leaves totalRounds one
\* above and round one above (modulo roundsPerGeneration) what they were when
\* it was called; so between Steps 0 <= round < roundsPerGeneration, and
\* totalRounds is the number of rounds run since the last Reset.
C29_RoundCounters ==
    /\ [][(Round' # Round \/ TotalRounds' # TotalRounds)
             => \/ /\ pc = "collect" /\ pc' = "apply"
                   /\ collected = Len(agents) \div 2
                   /\ applied = 0 /\ applied' = 0
                   /\ AgentResources' = AgentResources
                   /\ Round' = Round + 1
                   /\ TotalRounds' = TotalRounds + 1
                \/ /\ pc = "apply" /\ pc' = "idle"
                   /\ Round = RoundsPerGen /\ Round' = 0
                   /\ TotalRounds' = TotalRounds
                \/ /\ DonorResetStep
                   /\ Round' = 0 /\ TotalRounds' = 0]_vars
    /\ [][(pc = "apply" /\ pc' = "idle")
             => /\ TotalRounds' = entry.total + 1
                /\ Round' = (entry.round + 1) % RoundsPerGen]_vars
    /\ [](pc = "idle" => (0 <= Round /\ Round < RoundsPerGen))
    /\ [](gpc \in {"rounds", "selected"} => TotalRounds = round)

\* C29 witness: the last round of a generation has returned; round is back at
\* 0 and totalRounds is roundsPerGeneration.
C29_Witness ==
    /\ gpc = "rounds" /\ pc = "idle"
    /\ round = RoundsPerGen
    /\ Round = 0
    /\ TotalRounds = RoundsPerGen
    /\ dret = DRet("step", "none", "nil")

(***************************************************************************)
(* Properties of the donor game's lock, decision tasks and snapshots.      *)
(***************************************************************************)
\* the decision tasks that run in this step
Deciding == tasks \ tasks'

\* C31: while a Step holds the lock no other call of the environment takes
\* effect and the roster stands; a decision task reads the ledger and the
\* round counter while the Step that launched it holds the lock; and the
\* ledger and the round counter are written only when no decision task has
\* still to read them.
C31_LedgerUnderLock ==
    /\ [][(pc # "idle" /\ pc' # "idle")
             => (agents' = agents /\ dret' = dret /\ top' = top)]_vars
    /\ [][\A t \in Deciding : pc # "idle" /\ t.step = nsteps]_vars
    /\ [][(AgentResources' # AgentResources \/ Round' # Round) => tasks = {}]_vars

\* the round that launched the task t has returned
Returned(t) == pc = "idle" \/ t.step # nsteps

\* C32: a decision task that runs after its round has returned changes
\* neither the ledger nor a counter nor the donations of the running round,
\* and its record goes to the channel of its own round; every Step makes a
\* new, empty channel, and records are taken only by the running Step from
\* its own channel, so the record is never applied or counted.
C32_LateRecordDiscarded ==
    /\ [][\A t \in Deciding :
              Returned(t)
                  => /\ ledgerVars' = ledgerVars
                     /\ donations' = donations /\ collected' = collected
                     /\ Len(donationChan'[t.step]) = Len(donationChan[t.step]) + 1
                     /\ \A k \in DOMAIN donationChan \ {t.step} :
                            donationChan'[k] = donationChan[k]]_vars
    /\ [][(pc = "idle" /\ pc' # "idle")
             => /\ nsteps' = nsteps + 1
                /\ Len(donationChan') = nsteps'
                /\ donationChan'[nsteps'] = <<>>]_vars
    /\ [][\A k \in DOMAIN donationChan :
              Len(donationChan'[k]) < Len(donationChan[k])
                  => (k = nsteps /\ pc = "collect" /\ collected' = collected + 1)]_vars
    /\ [][(SuccessfulDonations' + FailedDonations'
               # SuccessfulDonations + FailedDonations)
             => \/ DonorResetStep
                \/ /\ pc = "collect"
                   /\ Len(donationChan'[nsteps]) < Len(donationChan[nsteps])]_vars

\* C32 witness: the first round was aborted, the second has applied a
\* donation of the first round's recipient to its donor, and the task of the
\* first round has since decided to give more than the initial balance; its
\* record lies in the first round's channel and only the second round's
\* donation is counted.
C32_Witness ==
    /\ nsteps = 2 /\ pc = "idle" /\ tasks = {}
    /\ Len(donationChan[1]) = 1
    /\ donationChan[1][1].err = "nil"
    /\ donationChan[1][1].amount > InitialBalance
    /\ SuccessfulDonations = 1 /\ FailedDonations = 0
    /\ Bal(AgentResources, donationChan[1][1].donorID)
           = InitialBalance + DonationMult

\* C33: every decision task that has not emitted yet can run to its end
\* whatever the completion call answers: the channel of its round has a free
\* slot for its record, also when that round has returned; and a task that
\* runs emits exactly one record and is gone.
C33_EmitNeverBlocks ==
    /\ [](\A t \in tasks :
              /\ t.step \in DOMAIN donationChan
              /\ Len(donationChan[t.step])
                     + Cardinality({u \in tasks : u.step = t.step}) <= t.cap
              /\ \A response \in Responses : ENABLED Decide(t, response))
    /\ [][\A t \in Deciding :
              /\ tasks' = tasks \ {t}
              /\ Len(donationChan'[t.step]) = Len(donationChan[t.step]) + 1]_vars

\* C33 witness: a round of two pairs was aborted with nothing collected; one
\* record lies unread in its channel and the other task has still to emit.
C33_Witness ==
    /\ pc = "idle" /\ Len(agents) = 4
    /\ dret = DRet("step", "none", "context canceled")
    /\ collected = 0
    /\ Len(donationChan[nsteps]) = 1
    /\ Cardinality({t \in tasks : t.step = nsteps}) = 1

\* this step is a Step returning, with nil or out of its collection loop
AnyReturn == pc # "idle" /\ pc' = "idle"

\* C37: every Step that returns, with nil or aborted, has raised
\* successfulDonations by the number of donations it applied to the ledger,
\* so that between Steps the counter is the number of donations applied since
\* the last Reset.
C37_SuccessfulEqualsApplied ==
    [][AnyReturn => SuccessfulDonations' = entry.successful + applied]_vars

(***************************************************************************)
(* Properties of the LLM agent's message handler.                          *)
(***************************************************************************)
\* a message leaves the queue of id in this step
Taken(id) == Len(chans'[messageChan(id)]) < Len(chans[messageChan(id)])

\* C36: a message leaves an agent's queue only through its running handler,
\* which takes the oldest one and appends to the agent's memory log one entry
\* with its sender and content; the log changes in no other way and the queue
\* otherwise only grows at its end, so the log holds the messages in the order
\* of their delivery, each once; and while the handler runs and its context
\* is not cancelled a queued message is taken in the end.
C36_HandlerStoresInOrder ==
    /\ [][\A id \in Ids :
              LET q == chans[messageChan(id)]
              IN  /\ Taken(id)
                       => /\ handler[id] = "running"
                          /\ chans'[messageChan(id)] = Tail(q)
                          /\ llmMemory'[id]
                                 = Append(llmMemory[id],
                                          "Message from " \o Head(q).From
                                              \o ": " \o Head(q).Content)
                  /\ ~Taken(id)
                       => /\ llmMemory'[id] = llmMemory[id]
                          /\ SubSeq(chans'[messageChan(id)], 1, Len(q)) = q]_vars
    /\ \A id \in Ids, n \in 0..MaxPublish :
           (/\ handler[id] = "running" /\ ~handlerCtx
            /\ chans[messageChan(id)] # <<>>
            /\ Len(llmMemory[id]) = n)
               ~> (Len(llmMemory[id]) > n \/ handlerCtx)

\* C36 witness: two messages were delivered to a2 while its handler ran; its
\* log holds them in that order, and its queue is empty.
C36_Witness ==
    /\ handler["a2"] = "running" /\ ~handlerCtx
    /\ chans[messageChan("a2")] = <<>>
    /\ llmMemory["a2"] = <<"Message from a1: hello", "Message from a1: bye">>

(***************************************************************************)
(* Properties of the broker: repeated recipients.                          *)
(***************************************************************************)
\* C39: a Publish adds at most one message to any channel.
C39_AtMostOneCopy ==
    [][PublishStep
          => \A h \in Chans : Len(chans'[h]) <= Len(chans[h]) + 1]_vars

(***************************************************************************)
(* Properties of the decision's arguments.                                 *)
(***************************************************************************)
\* the decision tasks of the running round that have still to decide
Running == {t \in tasks : pc # "idle" /\ t.step = nsteps}

\* C34: in the generational run, a decision of the running round is given
\* the number of the generation being played, the round counter's value when
\* the round was called, and the balances the recipient and the donor had
\* then.
C34_DecisionArguments ==
    [](gpc = "step"
         => \A t \in Running :
                /\ DecisionArgs(t).generation = gen
                /\ DecisionArgs(t).round = entry.round
                /\ DecisionArgs(t).recipientID = t.recipient
                /\ DecisionArgs(t).recipientResources = Bal(entry.res, t.recipient)
                /\ DecisionArgs(t).donorResources = Bal(entry.res, t.donor))

(***************************************************************************)
(* Properties of the generic environment: the agents' subscriptions.       *)
(***************************************************************************)
\* C35: a Reset of the generic environment leaves no agent of the roster it
\* clears subscribed in the broker.
C35_ResetUnsubscribes ==
    [][BaseResetStep
          => \A a \in Range(baseAgents) : subscribers'[a] = NoChan]_vars

(***************************************************************************)
(* Properties of the state snapshots.                                      *)
(***************************************************************************)
\* C38: while the Step of the experiment runs, the ledger seen through the
\* snapshot recorded before it is the ledger of the moment it was taken.
C38_SnapshotKeepsLedger ==
    []((cmd = "donor-game" /\ xpc = "step" /\ pc # "idle")
          => Entries(metrics[Len(metrics)]) = entry.res)

====
